---- MODULE Spec2Model ----
(***************************************************************************)
(* Model of the telda2 BLF4 execution engine: the opcode handlers of       *)
(* src/blf4/isa/handlers.rs, the dispatch table OP_HANDLERS and the        *)
(* operand decoders.  One step of the machine runs the handler that the    *)
(* table gives for an opcode byte on a handler context (CPU state, memory, *)
(* the operand bytes that follow the opcode in the instruction stream).    *)
(***************************************************************************)
EXTENDS Integers, Sequences, FiniteSets, TLC

(***************************************************************************)
(* Bounds of the model.                                                    *)
(***************************************************************************)
\* how many of the sample values a register may start with
NVals == 8
\* how many of the sample values a register may start with in the control spec
NCtlVals == 2
\* how many register selectors the modelled instructions choose from
NSel == 3
\* how many sample immediates the modelled instructions choose from
NImm == 3
\* instructions executed in a run of the control-flow specification
MaxSteps == 3

(***************************************************************************)
(* Machine integers.                                                       *)
(***************************************************************************)
Pow2(n) == 2 ^ n

\* u8 / u16 wrap-around
Wrap(x, w) == x % Pow2(w)

\* u16 arithmetic leaves 0 .. 0xFFFF: a panic in a build that checks overflow
Overflows(x) == x < 0 \/ x >= Pow2(16)

\* `x as i8`, `x as i16`: the two's complement reading of a w-bit pattern
AsSigned(x, w) == IF x >= Pow2(w - 1) THEN x - Pow2(w) ELSE x

\* `x as u8`, `x as u16` of a signed value
AsUnsigned(x, w) == x % Pow2(w)

\* iN::is_negative
is_negative(i) == i < 0

RECURSIVE BitOp(_, _, _, _)
\* bitwise combination of two w-bit patterns, bit by bit; f is "and", "or", "xor"
BitOp(f, x, y, w) ==
    IF w = 0 THEN 0
    ELSE LET a == x % 2
             b == y % 2
             bit == CASE f = "and" -> IF a = 1 /\ b = 1 THEN 1 ELSE 0
                      [] f = "or"  -> IF a = 1 \/ b = 1 THEN 1 ELSE 0
                      [] OTHER     -> IF a # b THEN 1 ELSE 0
         IN bit + 2 * BitOp(f, x \div 2, y \div 2, w - 1)

\* uN::overflowing_add: (wrapped sum, carry out)
overflowing_add(x, y, w) == <<Wrap(x + y, w), x + y >= Pow2(w)>>

\* uN::overflowing_sub: (wrapped difference, borrow)
overflowing_sub(x, y, w) == <<Wrap(x - y, w), x < y>>

\* iN::overflowing_add on signed values: (wrapped sum, left the signed range)
ioverflowing_add(x, y, w) ==
    LET s == x + y
    IN <<AsSigned(Wrap(s, w), w), s < -Pow2(w - 1) \/ s > Pow2(w - 1) - 1>>

\* iN::overflowing_sub on signed values
ioverflowing_sub(x, y, w) ==
    LET s == x - y
    IN <<AsSigned(Wrap(s, w), w), s < -Pow2(w - 1) \/ s > Pow2(w - 1) - 1>>

\* The shift operators << and >> abort the host when the amount is not below
\* the operand width and the build checks overflow; otherwise the amount is
\* reduced modulo the width.
ShiftOverflows(y, w) == y >= w

ShiftAmount(y, w) == y % w

(***************************************************************************)
(* The state of the machine.                                               *)
(***************************************************************************)
VARIABLES
    cpu,      \* the CPU: registers, stack, link, program_counter, flags
    mem,      \* physical memory: the bytes that differ from 0, by address
    res,      \* what the last handler returned: "Ok", a TrapMode, or "Panic"
    pre,      \* cpu and mem as they were before the last handler ran
    ins,      \* the last instruction: <<opcode, operand bytes...>>
    nfetch,   \* how many operand bytes the last handler fetched
    hist,     \* the instructions executed so far, each with the cpu it ran on
    steps,    \* instructions executed so far
    asm,      \* the assembler: its input so far, its symbols and its output
    std       \* the StandardCpu machine: its cpu, its memory, its last instruction

\* the machine's variables
machine == <<cpu, mem, res, pre, ins, nfetch, hist, steps>>

vars == <<cpu, mem, res, pre, ins, nfetch, hist, steps, asm, std>>

Bytes == 0 .. 255

(***************************************************************************)
(* Handler results.  A handler maps a context c to a context and a result. *)
(* The context holds the CPU, the memory, the operand bytes that follow    *)
(* the opcode, the count of bytes fetched, and the facts about the host    *)
(* that the handler cannot see: whether memory accesses fault, whether the *)
(* build checks arithmetic overflow, whether a write to the wide zero      *)
(* register is rejected.                                                   *)
(***************************************************************************)
Ok(c) == [c |-> c, r |-> "Ok"]

Err(c, t) == [c |-> c, r |-> t]

\* the host aborts: nothing of the machine is left to observe but the abort
Panic(c) == [c |-> c, r |-> "Panic"]

TrapModes == {"Invalid", "Halt", "SysCall", "ZeroDiv", "IllegalOperation",
              "IllegalHandlerReturn", "PageFault"}

(***************************************************************************)
(* The register file.                                                      *)
(***************************************************************************)
R0 == 0

RS == 11

RL == 12

RB == 13

RP == 14

RH == 15

\* Blf4::read_wr: selector 0 reads 0
read_wr(c, r) ==
    CASE r = R0 -> 0
      [] r = RS -> c.cpu.stack
      [] r = RL -> c.cpu.link
      [] r = RB -> c.cpu.base
      [] r = RP -> c.cpu.program_counter
      [] r = RH -> c.cpu.handler
      [] OTHER  -> c.cpu.registers[r]

\* Blf4::write_wr: a write to selector 0 is discarded, or rejected
write_wr(c, r, v) ==
    CASE r = R0 -> IF c.zreject THEN Err(c, "Invalid") ELSE Ok(c)
      [] r = RS -> Ok([c EXCEPT !.cpu.stack = v])
      [] r = RL -> Ok([c EXCEPT !.cpu.link = v])
      [] r = RB -> Ok([c EXCEPT !.cpu.base = v])
      [] r = RP -> Ok([c EXCEPT !.cpu.program_counter = v])
      [] r = RH -> Ok([c EXCEPT !.cpu.handler = v])
      [] OTHER  -> Ok([c EXCEPT !.cpu.registers[r] = v])

\* the wide register a byte selector is a field of, and whether it is the
\* high byte: r1l r1h .. r5l r5h are selectors 1..10, r6b..r10b are 11..15
ByteHome(r) == IF r <= 10 THEN <<(r + 1) \div 2, r % 2 = 0>> ELSE <<r - 5, FALSE>>

\* Blf4::read_br
read_br(c, r) ==
    IF r = R0 THEN 0
    ELSE LET h == ByteHome(r)
             v == c.cpu.registers[h[1]]
         IN IF h[2] THEN v \div 256 ELSE v % 256

\* Blf4::write_br: a write to selector 0 is discarded
write_br(c, r, v) ==
    IF r = R0 THEN c
    ELSE LET h == ByteHome(r)
             old == c.cpu.registers[h[1]]
             new == IF h[2] THEN v * 256 + (old % 256) ELSE (old \div 256) * 256 + v
         IN [c EXCEPT !.cpu.registers[h[1]] = new]

(***************************************************************************)
(* The operand decoders.                                                   *)
(***************************************************************************)
\* HandlerContext::fetch: the byte at the program counter, which advances
fetch(c) ==
    [c |-> [c EXCEPT !.cpu.program_counter = Wrap(@ + 1, 16), !.n = @ + 1],
     v |-> c.ops[c.n + 1]]

\* U4::paired: high nibble first
paired(b) == <<b \div 16, b % 16>>

\* arg_pair: one operand byte, as two nibbles
arg_pair(c) == LET f == fetch(c) IN [c |-> f.c, v |-> paired(f.v)]

\* arg_imm_byte
arg_imm_byte(c) == fetch(c)

\* arg_imm_wide: two operand bytes, little-endian
arg_imm_wide(c) ==
    LET l == fetch(c)
        h == fetch(l.c)
    IN [c |-> h.c, v |-> l.v + 256 * h.v]

(***************************************************************************)
(* The memory ports.                                                       *)
(***************************************************************************)
\* the frame the page table gives the 16-bit address space in virtual mode
VirtualFrame == 1

PhysBytes(m, a) == IF a \in DOMAIN m THEN m[a] ELSE 0

\* HandlerContext::physical_read
physical_read(c, addr) ==
    IF c.fault THEN [c |-> c, r |-> "PageFault", v |-> 0]
    ELSE [c |-> c, r |-> "Ok", v |-> PhysBytes(c.mem, addr)]

\* HandlerContext::physical_write
physical_write(c, addr, b) ==
    IF c.fault THEN Err(c, "PageFault")
    ELSE Ok([c EXCEPT !.mem = (addr :> b) @@ @])

\* effective address to physical address
Translate(c, addr) ==
    IF c.cpu.flags.virtual_mode THEN VirtualFrame * Pow2(16) + addr ELSE addr

\* HandlerContext::read
read(c, addr) == physical_read(c, Translate(c, addr))

\* HandlerContext::write
write(c, addr, b) == physical_write(c, Translate(c, addr), b)

\* HandlerContext::read_wide: two byte reads, little-endian
read_wide(c, addr) ==
    LET l == read(c, addr)
        h == read(c, Wrap(addr + 1, 16))
    IN IF l.r # "Ok" THEN l
       ELSE IF h.r # "Ok" THEN h
       ELSE [c |-> c, r |-> "Ok", v |-> l.v + 256 * h.v]

\* HandlerContext::write_wide: two byte writes, little-endian
write_wide(c, addr, w) ==
    LET l == write(c, addr, w % 256)
    IN IF l.r # "Ok" THEN l ELSE write(l.c, Wrap(addr + 1, 16), w \div 256)

\* HandlerContext::pushb: lower the stack pointer, then store
pushb(c, b) ==
    LET sp == Wrap(c.cpu.stack - 1, 16)
        w == write(c, sp, b)
    IN IF w.r # "Ok" THEN w ELSE Ok([w.c EXCEPT !.cpu.stack = sp])

\* HandlerContext::pushw
pushw(c, v) ==
    LET sp == Wrap(c.cpu.stack - 2, 16)
        w == write_wide(c, sp, v)
    IN IF w.r # "Ok" THEN w ELSE Ok([w.c EXCEPT !.cpu.stack = sp])

\* HandlerContext::popb: load, then raise the stack pointer
popb(c) ==
    LET x == read(c, c.cpu.stack)
    IN IF x.r # "Ok" THEN x
       ELSE [c |-> [c EXCEPT !.cpu.stack = Wrap(@ + 1, 16)], r |-> "Ok", v |-> x.v]

\* HandlerContext::popw
popw(c) ==
    LET x == read_wide(c, c.cpu.stack)
    IN IF x.r # "Ok" THEN x
       ELSE [c |-> [c EXCEPT !.cpu.stack = Wrap(@ + 2, 16)], r |-> "Ok", v |-> x.v]

(***************************************************************************)
(* The trap engine's restore of the saved register set.                    *)
(***************************************************************************)
FlagNames == <<"zero", "sign", "carry", "overflow", "trap", "user_mode", "virtual_mode">>

RECURSIVE FlagsWord(_, _)
\* the flag word: flag i of FlagNames is bit i-1
FlagsWord(f, i) ==
    IF i > Len(FlagNames) THEN 0
    ELSE (IF f[FlagNames[i]] THEN Pow2(i - 1) ELSE 0) + FlagsWord(f, i + 1)

FlagsOf(w) == [n \in {FlagNames[i] : i \in 1 .. Len(FlagNames)} |->
                 LET i == CHOOSE j \in 1 .. Len(FlagNames) : FlagNames[j] = n
                 IN (w \div Pow2(i - 1)) % 2 = 1]

RECURSIVE PopWides(_, _)
\* v pushed to the front of the values popped after it
PopCons(v, rest) == [c |-> rest.c, r |-> rest.r, v |-> <<v>> \o rest.v]

\* the pops that follow the pop x, k pops in all
PopNext(c, x, k) ==
    IF x.r # "Ok" THEN [c |-> c, r |-> x.r, v |-> <<>>]
    ELSE PopCons(x.v, PopWides(x.c, k - 1))

\* k wide values popped off the stack, first popped first
PopWides(c, k) ==
    IF k = 0 THEN [c |-> c, r |-> "Ok", v |-> <<>>] ELSE PopNext(c, popw(c), k)

\* the saved register set p, put back: link, the program counter at the
\* fault, the flag word and r10 .. r1
Restore(c, p) ==
    IF p.r # "Ok" THEN Err(c, p.r)
    ELSE Ok([p.c EXCEPT !.cpu.link = p.v[1],
                        !.cpu.program_counter = p.v[2],
                        !.cpu.flags = FlagsOf(p.v[3]),
                        !.cpu.registers = [i \in 1 .. 10 |-> p.v[14 - i]]])

\* HandlerContext::pop_registers
pop_registers(c) == Restore(c, PopWides(c, 13))

RECURSIVE PushWides(_, _)
\* the push that follows the push w of the first of vs
PushRest(w, vs) == IF w.r # "Ok" THEN w ELSE PushWides(w.c, Tail(vs))

\* the wide values vs pushed onto the stack, first pushed first
PushWides(c, vs) == IF vs = <<>> THEN Ok(c) ELSE PushRest(pushw(c, Head(vs)), vs)

\* the saved register set, in the order it is pushed: r1 .. r10, the flag
\* word, the program counter and link
SavedSet(cpu0) ==
    [i \in 1 .. 13 |-> CASE i <= 10 -> cpu0.registers[i]
                         [] i = 11 -> FlagsWord(cpu0.flags, 1)
                         [] i = 12 -> cpu0.program_counter
                         [] OTHER -> cpu0.link]

\* the trap engine's entry into the handler: the register set is pushed, the
\* machine is in supervisor mode with trap set, and the program counter is
\* loaded from the handler register
EnterHandler(p) ==
    IF p.r # "Ok" THEN p
    ELSE Ok([p.c EXCEPT !.cpu.flags.user_mode = FALSE,
                        !.cpu.flags.trap = TRUE,
                        !.cpu.program_counter = p.c.cpu.handler])

push_registers(c) == EnterHandler(PushWides(c, SavedSet(c.cpu)))

(***************************************************************************)
(* The handlers: control and privileged instructions.                      *)
(***************************************************************************)
\* a default handler that takes the byte for a no-operation
n_returns_ok(c) == Ok(c)

n(c) == Err(c, "Invalid")

halt(c) == Err(c, "Halt")

syscall(c) == Err(c, "SysCall")

ctf(c) == Ok([c EXCEPT !.cpu.flags.trap = FALSE])

\* the end of reth, after pop_registers returned p
RethDone(p) == IF p.r # "Ok" THEN p ELSE Ok([p.c EXCEPT !.cpu.flags.trap = FALSE])

reth_unguarded(c) == RethDone(pop_registers(c))

reth(c) ==
    IF ~c.cpu.flags.trap THEN Err(c, "IllegalHandlerReturn")
    ELSE RethDone(pop_registers(c))

usr(c) ==
    IF c.cpu.flags.user_mode THEN Err(c, "IllegalOperation")
    ELSE Ok([c EXCEPT !.cpu.flags.user_mode = TRUE])

vmon(c) ==
    IF c.cpu.flags.user_mode THEN Err(c, "IllegalOperation")
    ELSE Ok([c EXCEPT !.cpu.flags.virtual_mode = TRUE])

vmoff(c) ==
    IF c.cpu.flags.user_mode THEN Err(c, "IllegalOperation")
    ELSE Ok([c EXCEPT !.cpu.flags.virtual_mode = FALSE])

\* a pstore that decodes its operands before it looks at the mode
pstore_decodes_first(c) ==
    LET p1 == arg_pair(c)
        p2 == arg_pair(p1.c)
    IN IF p2.c.cpu.flags.user_mode THEN Err(p2.c, "IllegalOperation")
       ELSE IF p2.v[2] # 0 THEN Err(p2.c, "Invalid")
       ELSE physical_write(p2.c, read_wr(p2.c, p1.v[2]) + read_br(p2.c, p1.v[1]) * Pow2(16),
                           read_br(p2.c, p2.v[1]))

pstore(c) ==
    IF c.cpu.flags.user_mode THEN Err(c, "IllegalOperation")
    ELSE LET p1 == arg_pair(c)
             p2 == arg_pair(p1.c)
             br1 == p1.v[1]
             wr == p1.v[2]
             br2 == p2.v[1]
             zero == p2.v[2]
             high_byte == read_br(p2.c, br1)
             low_wide == read_wr(p2.c, wr)
             addr == low_wide + high_byte * Pow2(16)
         IN IF zero # 0 THEN Err(p2.c, "Invalid")
            ELSE physical_write(p2.c, addr, read_br(p2.c, br2))

pload_translated(c) ==
    IF c.cpu.flags.user_mode THEN Err(c, "IllegalOperation")
    ELSE LET p1 == arg_pair(c)
             p2 == arg_pair(p1.c)
             addr == read_wr(p2.c, p2.v[1]) + read_br(p2.c, p1.v[2]) * Pow2(16)
             val == read(p2.c, addr)
         IN IF p2.v[2] # 0 THEN Err(p2.c, "Invalid")
            ELSE IF val.r # "Ok" THEN Err(p2.c, val.r)
            ELSE Ok(write_br(p2.c, p1.v[1], val.v))

pload(c) ==
    IF c.cpu.flags.user_mode THEN Err(c, "IllegalOperation")
    ELSE LET p1 == arg_pair(c)
             p2 == arg_pair(p1.c)
             br1 == p1.v[1]
             br2 == p1.v[2]
             wr == p2.v[1]
             zero == p2.v[2]
             high_byte == read_br(p2.c, br2)
             low_wide == read_wr(p2.c, wr)
             addr == low_wide + high_byte * Pow2(16)
             val == physical_read(p2.c, addr)
         IN IF zero # 0 THEN Err(p2.c, "Invalid")
            ELSE IF val.r # "Ok" THEN Err(p2.c, val.r)
            ELSE Ok(write_br(p2.c, br1, val.v))

(***************************************************************************)
(* The handlers: arithmetic and logic.                                     *)
(***************************************************************************)
\* the unsigned closure a binop handler passes: (result, carry)
UBinop(op, x, y, w) ==
    CASE op = "add" -> overflowing_add(x, y, w)
      [] op = "sub" -> overflowing_sub(x, y, w)
      [] op = "and" -> <<BitOp("and", x, y, w), FALSE>>
      [] op = "or"  -> <<BitOp("or", x, y, w), FALSE>>
      [] op = "xor" -> <<BitOp("xor", x, y, w), FALSE>>
      [] op = "shl" -> <<Wrap(x * Pow2(ShiftAmount(y, w)), w), FALSE>>
      [] op = "asr" -> <<AsUnsigned(AsSigned(x, w) \div Pow2(ShiftAmount(y, w)), w), FALSE>>
      [] op = "lsr" -> <<x \div Pow2(ShiftAmount(y, w)), FALSE>>

\* the signed closure a binop handler passes, on `as iN` values: (result, overflowing)
IBinop(op, x, y, w) ==
    CASE op = "add" -> ioverflowing_add(x, y, w)
      [] op = "sub" -> ioverflowing_sub(x, y, w)
      [] op = "and" -> <<AsSigned(BitOp("and", AsUnsigned(x, w), AsUnsigned(y, w), w), w), FALSE>>
      [] op = "or"  -> <<AsSigned(BitOp("or", AsUnsigned(x, w), AsUnsigned(y, w), w), w), FALSE>>
      [] op = "xor" -> <<AsSigned(BitOp("xor", AsUnsigned(x, w), AsUnsigned(y, w), w), w), FALSE>>
      [] op = "shl" -> <<AsSigned(Wrap(AsUnsigned(x, w) * Pow2(ShiftAmount(y, w)), w), w), FALSE>>
      [] op = "asr" -> <<x \div Pow2(ShiftAmount(y, w)), FALSE>>
      [] op = "lsr" -> <<AsSigned(AsUnsigned(x, w) \div Pow2(ShiftAmount(y, w)), w), FALSE>>

\* whether evaluating a closure aborts: a shift by the width or more, in a
\* build that checks overflow
BinopAborts(c, op, y, w) ==
    c.checks /\ op \in {"shl", "asr", "lsr"} /\ ShiftOverflows(y, w)

\* binop flags whose overflow is the unsigned closure's carry
BinopFlags_overflow_from_carry(f, u, i) ==
    [f EXCEPT !.carry = u[2], !.overflow = u[2],
              !.sign = is_negative(i[1]), !.zero = (u[1] = 0)]

\* the four condition flags a binop leaves, from the closures' results
BinopFlags(f, u, i) ==
    [f EXCEPT !.carry = u[2], !.overflow = i[2],
              !.sign = is_negative(i[1]), !.zero = (u[1] = 0)]

\* a byte binop on the decoded operands: destination r1, the values r2 and
\* r3 read from the source registers, the zero nibble r4
BinopB(c, op, r1, r2, r3, r4) ==
    IF r4 # 0 THEN Err(c, "Invalid")
    ELSE IF BinopAborts(c, op, r3, 8) THEN Panic(c)
    ELSE Ok(write_br([c EXCEPT !.cpu.flags =
                         BinopFlags(@, UBinop(op, r2, r3, 8),
                                    IBinop(op, AsSigned(r2, 8), AsSigned(r3, 8), 8))],
                     r1, UBinop(op, r2, r3, 8)[1]))

binop_b(c, op) ==
    LET p1 == arg_pair(c)
        p2 == arg_pair(p1.c)
    IN BinopB(p2.c, op, p1.v[1], read_br(p2.c, p1.v[2]), read_br(p2.c, p2.v[1]), p2.v[2])

\* a wide binop on the decoded operands
BinopW(c, op, r1, r2, r3, r4) ==
    IF r4 # 0 THEN Err(c, "Invalid")
    ELSE IF BinopAborts(c, op, r3, 16) THEN Panic(c)
    ELSE write_wr([c EXCEPT !.cpu.flags =
                      BinopFlags(@, UBinop(op, r2, r3, 16),
                                 IBinop(op, AsSigned(r2, 16), AsSigned(r3, 16), 16))],
                  r1, UBinop(op, r2, r3, 16)[1])

binop_w(c, op) ==
    LET p1 == arg_pair(c)
        p2 == arg_pair(p1.c)
    IN BinopW(p2.c, op, p1.v[1], read_wr(p2.c, p1.v[2]), read_wr(p2.c, p2.v[1]), p2.v[2])

\* `x as u2N * y as u2N`, split by to_le_bytes: <<upper, lower>>.  The product
\* is put together from the products of the halves of x and y, each of which
\* stays below 2^31.
WideningMul(x, y, w) ==
    LET h == Pow2(w \div 2)
        xl == x % h
        xh == x \div h
        yl == y % h
        yh == y \div h
        mid == xh * yl + xl * yh
        t == xl * yl + (mid % h) * h
    IN <<xh * yh + (mid \div h) + (t \div Pow2(w)), t % Pow2(w)>>

\* MUL flags whose sign and zero are taken from the upper half
MulFlags_from_upper(f, upper, lower, w) ==
    [f EXCEPT !.carry = (upper # 0), !.overflow = (upper # 0),
              !.zero = (upper = 0), !.sign = is_negative(AsSigned(upper, w))]

\* the four condition flags MUL leaves, from the halves of the product
MulFlags(f, upper, lower, w) ==
    [f EXCEPT !.carry = (upper # 0), !.overflow = (upper # 0),
              !.zero = (lower = 0), !.sign = is_negative(AsSigned(lower, w))]

mul_b(c) ==
    LET p1 == arg_pair(c)
        p2 == arg_pair(p1.c)
        prod == WideningMul(read_br(p2.c, p2.v[1]), read_br(p2.c, p2.v[2]), 8)
        lower == prod[2]
        upper == prod[1]
        fl == [p2.c EXCEPT !.cpu.flags = MulFlags(@, upper, lower, 8)]
    IN Ok(write_br(write_br(fl, p1.v[1], upper), p1.v[2], lower))

mul_w(c) ==
    LET p1 == arg_pair(c)
        p2 == arg_pair(p1.c)
        prod == WideningMul(read_wr(p2.c, p2.v[1]), read_wr(p2.c, p2.v[2]), 16)
        lower == prod[2]
        upper == prod[1]
        fl == [p2.c EXCEPT !.cpu.flags = MulFlags(@, upper, lower, 16)]
        w1 == write_wr(fl, p1.v[1], upper)
    IN IF w1.r # "Ok" THEN w1 ELSE write_wr(w1.c, p1.v[2], lower)

\* a div_b that hands the remainder to r1 and the quotient to r2
div_b_swapped(c) ==
    LET p1 == arg_pair(c)
        p2 == arg_pair(p1.c)
        n1 == read_br(p2.c, p2.v[1])
        n2 == read_br(p2.c, p2.v[2])
    IN IF n2 = 0 THEN Err(p2.c, "ZeroDiv")
       ELSE Ok(write_br(write_br(p2.c, p1.v[1], n1 % n2), p1.v[2], n1 \div n2))

div_b(c) ==
    LET p1 == arg_pair(c)
        p2 == arg_pair(p1.c)
        n1 == read_br(p2.c, p2.v[1])
        n2 == read_br(p2.c, p2.v[2])
    IN IF n2 = 0 THEN Err(p2.c, "ZeroDiv")
       ELSE Ok(write_br(write_br(p2.c, p1.v[1], n1 \div n2), p1.v[2], n1 % n2))

div_w(c) ==
    LET p1 == arg_pair(c)
        p2 == arg_pair(p1.c)
        n1 == read_wr(p2.c, p2.v[1])
        n2 == read_wr(p2.c, p2.v[2])
    IN IF n2 = 0 THEN Err(p2.c, "ZeroDiv")
       ELSE LET w1 == write_wr(p2.c, p1.v[1], n1 \div n2)
            IN IF w1.r # "Ok" THEN w1 ELSE write_wr(w1.c, p1.v[2], n1 % n2)

(***************************************************************************)
(* The handlers: stack, calls, loads and stores.                           *)
(***************************************************************************)
nop(c) == Ok(c)

push_b(c) ==
    LET p == arg_pair(c)
        b == read_br(p.c, p.v[1])
    IN IF p.v[2] # 0 THEN Err(p.c, "Invalid") ELSE pushb(p.c, b)

push_w(c) ==
    LET p == arg_pair(c)
        w == read_wr(p.c, p.v[1])
    IN IF p.v[2] # 0 THEN Err(p.c, "Invalid") ELSE pushw(p.c, w)

\* a pop_b that pops before it looks at the zero nibble
pop_b_pops_first(c) ==
    LET p == arg_pair(c)
        b == popb(p.c)
    IN IF b.r # "Ok" THEN Err(p.c, b.r)
       ELSE IF p.v[2] # 0 THEN Err(b.c, "Invalid")
       ELSE Ok(write_br(b.c, p.v[1], b.v))

pop_b(c) ==
    LET p == arg_pair(c)
        b == popb(p.c)
    IN IF p.v[2] # 0 THEN Err(p.c, "Invalid")
       ELSE IF b.r # "Ok" THEN Err(p.c, b.r)
       ELSE Ok(write_br(b.c, p.v[1], b.v))

pop_w(c) ==
    LET p == arg_pair(c)
        w == popw(p.c)
    IN IF p.v[2] # 0 THEN Err(p.c, "Invalid")
       ELSE IF w.r # "Ok" THEN Err(p.c, w.r)
       ELSE write_wr(w.c, p.v[1], w.v)

call(c) ==
    LET w == arg_imm_wide(c)
    IN Ok([w.c EXCEPT !.cpu.link = w.c.cpu.program_counter,
                      !.cpu.program_counter = w.v])

\* `stack += b`: the sum aborts in a build that checks overflow, else wraps
ret(c) ==
    LET b == arg_imm_byte(c)
        sum == b.c.cpu.stack + b.v
    IN IF b.c.checks /\ sum >= Pow2(16) THEN Panic(b.c)
       ELSE Ok([b.c EXCEPT !.cpu.stack = Wrap(sum, 16),
                           !.cpu.program_counter = b.c.cpu.link])

\* `base + offset` of a load or store: whether the sum aborts
AddrAborts(c, base, offset) == c.checks /\ base + offset >= Pow2(16)

store_bi(c) ==
    LET p == arg_pair(c)
        o == arg_imm_wide(p.c)
        base == read_wr(o.c, p.v[1])
    IN IF AddrAborts(o.c, base, o.v) THEN Panic(o.c)
       ELSE write(o.c, Wrap(base + o.v, 16), read_br(o.c, p.v[2]))

store_br(c) ==
    LET p1 == arg_pair(c)
        p2 == arg_pair(p1.c)
        offset == read_wr(p2.c, p1.v[2])
        base == read_wr(p2.c, p1.v[1])
    IN IF p2.v[2] # 0 THEN Err(p2.c, "Invalid")
       ELSE IF AddrAborts(p2.c, base, offset) THEN Panic(p2.c)
       ELSE write(p2.c, Wrap(base + offset, 16), read_br(p2.c, p2.v[1]))

store_wi(c) ==
    LET p == arg_pair(c)
        o == arg_imm_wide(p.c)
        base == read_wr(o.c, p.v[1])
    IN IF AddrAborts(o.c, base, o.v) THEN Panic(o.c)
       ELSE write_wide(o.c, Wrap(base + o.v, 16), read_wr(o.c, p.v[2]))

store_wr(c) ==
    LET p1 == arg_pair(c)
        p2 == arg_pair(p1.c)
        offset == read_wr(p2.c, p1.v[2])
        base == read_wr(p2.c, p1.v[1])
    IN IF p2.v[2] # 0 THEN Err(p2.c, "Invalid")
       ELSE IF AddrAborts(p2.c, base, offset) THEN Panic(p2.c)
       ELSE write_wide(p2.c, Wrap(base + offset, 16), read_wr(p2.c, p2.v[1]))

load_bi(c) ==
    LET p == arg_pair(c)
        o == arg_imm_wide(p.c)
        base == read_wr(o.c, p.v[2])
        val == read(o.c, Wrap(base + o.v, 16))
    IN IF AddrAborts(o.c, base, o.v) THEN Panic(o.c)
       ELSE IF val.r # "Ok" THEN Err(o.c, val.r)
       ELSE Ok(write_br(o.c, p.v[1], val.v))

load_br(c) ==
    LET p1 == arg_pair(c)
        p2 == arg_pair(p1.c)
        offset == read_wr(p2.c, p2.v[1])
        base == read_wr(p2.c, p1.v[2])
        val == read(p2.c, Wrap(base + offset, 16))
    IN IF p2.v[2] # 0 THEN Err(p2.c, "Invalid")
       ELSE IF AddrAborts(p2.c, base, offset) THEN Panic(p2.c)
       ELSE IF val.r # "Ok" THEN Err(p2.c, val.r)
       ELSE Ok(write_br(p2.c, p1.v[1], val.v))

load_wi(c) ==
    LET p == arg_pair(c)
        o == arg_imm_wide(p.c)
        base == read_wr(o.c, p.v[2])
        val == read_wide(o.c, Wrap(base + o.v, 16))
    IN IF AddrAborts(o.c, base, o.v) THEN Panic(o.c)
       ELSE IF val.r # "Ok" THEN Err(o.c, val.r)
       ELSE write_wr(o.c, p.v[1], val.v)

load_wr(c) ==
    LET p1 == arg_pair(c)
        p2 == arg_pair(p1.c)
        offset == read_wr(p2.c, p2.v[1])
        base == read_wr(p2.c, p1.v[2])
        val == read_wide(p2.c, Wrap(base + offset, 16))
    IN IF p2.v[2] # 0 THEN Err(p2.c, "Invalid")
       ELSE IF AddrAborts(p2.c, base, offset) THEN Panic(p2.c)
       ELSE IF val.r # "Ok" THEN Err(p2.c, val.r)
       ELSE write_wr(p2.c, p1.v[1], val.v)

(***************************************************************************)
(* The handlers: conditional jumps and immediate loads.                    *)
(***************************************************************************)
jif(cond, c) ==
    LET location == arg_imm_wide(c)
    IN IF cond THEN Ok([location.c EXCEPT !.cpu.program_counter = location.v])
       ELSE Ok(location.c)

jez(c) == jif(c.cpu.flags.zero, c)

jlt(c) == jif(c.cpu.flags.sign # c.cpu.flags.overflow, c)

jle(c) == jif(c.cpu.flags.sign # c.cpu.flags.overflow /\ c.cpu.flags.zero, c)

jgt(c) == jif(c.cpu.flags.sign = c.cpu.flags.overflow /\ ~c.cpu.flags.zero, c)

jge(c) == jif(c.cpu.flags.sign = c.cpu.flags.overflow, c)

jnz(c) == jif(~c.cpu.flags.zero, c)

jo(c) == jif(c.cpu.flags.overflow, c)

jno(c) == jif(~c.cpu.flags.overflow, c)

ja(c) == jif(~c.cpu.flags.carry /\ ~c.cpu.flags.zero, c)

jae(c) == jif(~c.cpu.flags.carry, c)

jb(c) == jif(c.cpu.flags.carry, c)

jbe(c) == jif(c.cpu.flags.carry \/ c.cpu.flags.zero, c)

ldi_b(c) ==
    LET p == arg_pair(c)
        b == arg_imm_byte(p.c)
    IN IF p.v[2] # 0 THEN Err(p.c, "Invalid")
       ELSE Ok(write_br(b.c, p.v[1], b.v))

\* an ldi_w whose jump variant takes the target from the register, whatever
\* the selector
ldi_w_jump_reads_register(c) ==
    LET p == arg_pair(c)
        w == arg_imm_wide(p.c)
    IN CASE p.v[2] = 0 -> write_wr(w.c, p.v[1], w.v)
         [] p.v[2] = 1 -> Ok([w.c EXCEPT !.cpu.program_counter = read_wr(w.c, p.v[1])])
         [] OTHER -> Err(w.c, "Invalid")

ldi_w(c) ==
    LET p == arg_pair(c)
        w == arg_imm_wide(p.c)
        r1 == p.v[1]
        o == p.v[2]
    IN CASE o = 0 -> write_wr(w.c, r1, w.v)
         [] o = 1 -> IF r1 = R0
                     THEN Ok([w.c EXCEPT !.cpu.program_counter = w.v])
                     ELSE Ok([w.c EXCEPT !.cpu.program_counter = read_wr(w.c, r1)])
         [] OTHER -> Err(w.c, "Invalid")

add_b(c) == binop_b(c, "add")

add_w(c) == binop_w(c, "add")

sub_b(c) == binop_b(c, "sub")

sub_w(c) == binop_w(c, "sub")

and_b(c) == binop_b(c, "and")

and_w(c) == binop_w(c, "and")

or_b(c) == binop_b(c, "or")

or_w(c) == binop_w(c, "or")

xor_b(c) == binop_b(c, "xor")

xor_w(c) == binop_w(c, "xor")

shl_b(c) == binop_b(c, "shl")

shl_w(c) == binop_w(c, "shl")

asr_b(c) == binop_b(c, "asr")

asr_w(c) == binop_w(c, "asr")

lsr_b(c) == binop_b(c, "lsr")

lsr_w(c) == binop_w(c, "lsr")

(***************************************************************************)
(* The dispatch table.                                                     *)
(***************************************************************************)
\* the opcodes, in the order of their bytes: NULL is byte 0
OpNames ==
    <<"NULL", "HALT", "CTF", "SYSCALL", "RETH",
      "USR", "VMON", "VMOFF", "PSTORE", "PLOAD",
      "NOP", "PUSH_B", "PUSH_W", "POP_B", "POP_W", "CALL", "RET",
      "STORE_BI", "STORE_WI", "STORE_BR", "STORE_WR",
      "LOAD_BI", "LOAD_WI", "LOAD_BR", "LOAD_WR",
      "JEZ", "JLT", "JLE", "JGT", "JGE", "JNZ", "JO", "JNO", "JB", "JAE", "JA", "JBE",
      "LDI_B", "LDI_W",
      "ADD_B", "ADD_W", "SUB_B", "SUB_W", "AND_B", "AND_W", "OR_B", "OR_W",
      "XOR_B", "XOR_W", "SHL_B", "SHL_W", "ASR_B", "ASR_W", "LSR_B", "LSR_W",
      "DIV_B", "DIV_W", "MUL_B", "MUL_W">>

\* the byte of an opcode
Opcode(name) == (CHOOSE i \in 1 .. Len(OpNames) : OpNames[i] = name) - 1

\* the assignments `handlers[X as usize] = x`, in the order they are made
Assignments ==
    <<<<"NULL", "n">>, <<"HALT", "halt">>, <<"CTF", "ctf">>,
      <<"SYSCALL", "syscall">>, <<"RETH", "reth">>,
      <<"USR", "usr">>, <<"VMON", "vmon">>, <<"VMOFF", "vmoff">>,
      <<"PSTORE", "pstore">>, <<"PLOAD", "pload">>,
      <<"NOP", "nop">>, <<"PUSH_B", "push_b">>, <<"PUSH_W", "push_w">>,
      <<"POP_B", "pop_b">>, <<"POP_W", "pop_w">>, <<"CALL", "call">>, <<"RET", "ret">>,
      <<"STORE_BI", "store_bi">>, <<"STORE_WI", "store_wi">>,
      <<"STORE_BR", "store_br">>, <<"STORE_WR", "store_wr">>,
      <<"LOAD_BI", "load_bi">>, <<"LOAD_WI", "load_wi">>,
      <<"LOAD_BR", "load_br">>, <<"LOAD_WR", "load_wr">>,
      <<"JEZ", "jez">>, <<"JLT", "jlt">>, <<"JLE", "jle">>, <<"JGT", "jgt">>,
      <<"JGE", "jge">>, <<"JNZ", "jnz">>, <<"JO", "jo">>, <<"JNO", "jno">>,
      <<"JB", "jb">>, <<"JAE", "jae">>, <<"JA", "ja">>, <<"JBE", "jbe">>,
      <<"LDI_B", "ldi_b">>, <<"LDI_W", "ldi_w">>,
      <<"ADD_B", "add_b">>, <<"ADD_W", "add_w">>, <<"SUB_B", "sub_b">>, <<"SUB_W", "sub_w">>,
      <<"AND_B", "and_b">>, <<"AND_W", "and_w">>, <<"OR_B", "or_b">>, <<"OR_W", "or_w">>,
      <<"XOR_B", "xor_b">>, <<"XOR_W", "xor_w">>, <<"SHL_B", "shl_b">>, <<"SHL_W", "shl_w">>,
      <<"ASR_B", "asr_b">>, <<"ASR_W", "asr_w">>, <<"LSR_B", "lsr_b">>, <<"LSR_W", "lsr_w">>,
      <<"DIV_B", "div_b">>, <<"DIV_W", "div_w">>, <<"MUL_B", "mul_b">>, <<"MUL_W", "mul_w">>>>

\* the handler every slot of the table starts with
DefaultHandler == "n"

RECURSIVE Assign(_, _)
Assign(t, i) ==
    IF i > Len(Assignments) THEN t
    ELSE Assign([t EXCEPT ![Opcode(Assignments[i][1])] = Assignments[i][2]], i + 1)

\* OP_HANDLERS: [n; 256], then the assignments
OP_HANDLERS == Assign([b \in Bytes |-> DefaultHandler], 1)

\* the call of a handler of the table
Run(h, c) ==
    CASE h = "n" -> n(c)
      [] h = "halt" -> halt(c)
      [] h = "ctf" -> ctf(c)
      [] h = "syscall" -> syscall(c)
      [] h = "reth" -> reth(c)
      [] h = "usr" -> usr(c)
      [] h = "vmon" -> vmon(c)
      [] h = "vmoff" -> vmoff(c)
      [] h = "pstore" -> pstore(c)
      [] h = "pload" -> pload(c)
      [] h = "nop" -> nop(c)
      [] h = "push_b" -> push_b(c)
      [] h = "push_w" -> push_w(c)
      [] h = "pop_b" -> pop_b(c)
      [] h = "pop_w" -> pop_w(c)
      [] h = "call" -> call(c)
      [] h = "ret" -> ret(c)
      [] h = "store_bi" -> store_bi(c)
      [] h = "store_wi" -> store_wi(c)
      [] h = "store_br" -> store_br(c)
      [] h = "store_wr" -> store_wr(c)
      [] h = "load_bi" -> load_bi(c)
      [] h = "load_wi" -> load_wi(c)
      [] h = "load_br" -> load_br(c)
      [] h = "load_wr" -> load_wr(c)
      [] h = "jez" -> jez(c)
      [] h = "jlt" -> jlt(c)
      [] h = "jle" -> jle(c)
      [] h = "jgt" -> jgt(c)
      [] h = "jge" -> jge(c)
      [] h = "jnz" -> jnz(c)
      [] h = "jo" -> jo(c)
      [] h = "jno" -> jno(c)
      [] h = "jb" -> jb(c)
      [] h = "jae" -> jae(c)
      [] h = "ja" -> ja(c)
      [] h = "jbe" -> jbe(c)
      [] h = "ldi_b" -> ldi_b(c)
      [] h = "ldi_w" -> ldi_w(c)
      [] h = "add_b" -> add_b(c)
      [] h = "add_w" -> add_w(c)
      [] h = "sub_b" -> sub_b(c)
      [] h = "sub_w" -> sub_w(c)
      [] h = "and_b" -> and_b(c)
      [] h = "and_w" -> and_w(c)
      [] h = "or_b" -> or_b(c)
      [] h = "or_w" -> or_w(c)
      [] h = "xor_b" -> xor_b(c)
      [] h = "xor_w" -> xor_w(c)
      [] h = "shl_b" -> shl_b(c)
      [] h = "shl_w" -> shl_w(c)
      [] h = "asr_b" -> asr_b(c)
      [] h = "asr_w" -> asr_w(c)
      [] h = "lsr_b" -> lsr_b(c)
      [] h = "lsr_w" -> lsr_w(c)
      [] h = "div_b" -> div_b(c)
      [] h = "div_w" -> div_w(c)
      [] h = "mul_b" -> mul_b(c)
      [] h = "mul_w" -> mul_w(c)

(***************************************************************************)
(* The values the model draws from.                                        *)
(***************************************************************************)
\* register values: 0x0000 0x0001 0xFFFF 0x8000 0x7F7F 0x0180 0x0010 0x0108
\* 0xFF02 0x7FFF 0x1234
ValSamples == <<0, 1, 65535, 32768, 32639, 384, 16, 264, 65282, 32767, 4660>>

Vals(k) == {ValSamples[i] : i \in 1 .. k}

\* wide register selectors: r0 r1 r2 rs rl r3
WideSelSamples == <<0, 1, 2, 11, 12, 3>>

Wr == {WideSelSamples[i] : i \in 1 .. NSel}

\* byte register selectors: r0b r1l r2l r1h r2h r6b
ByteSelSamples == <<0, 1, 3, 2, 4, 11>>

Br == {ByteSelSamples[i] : i \in 1 .. NSel}

\* 16-bit immediates: 0x0080 0xFFFF 0x0000 0x1234 0x0100
Imm16Samples == <<128, 65535, 0, 4660, 256>>

Imm16 == {Imm16Samples[i] : i \in 1 .. NImm}

\* 8-bit immediates
Imm8Samples == <<0, 1, 255, 4, 128>>

Imm8 == {Imm8Samples[i] : i \in 1 .. NImm}

\* stack pointers a run starts with: 0x0100 0xFFFF
StackSamples == {256, 65535}

lo(w) == w % 256

hi(w) == w \div 256

pair(a, b) == a * 16 + b

(***************************************************************************)
(* Initial states.                                                         *)
(***************************************************************************)
\* the CPU with r1 = v1, r2 = v2, the condition flags all f, the mode bits
\* um (user_mode), tr (trap) and vm (virtual_mode), and stack pointer sp
CpuWith(v1, v2, f, um, tr, vm, sp) ==
    [registers |-> [i \in 1 .. 10 |-> CASE i = 1 -> v1 [] i = 2 -> v2 [] OTHER -> 257 * i],
     stack |-> sp,
     link |-> 64,
     base |-> 0,
     handler |-> 3840,
     program_counter |-> 16,
     flags |-> [zero |-> f, sign |-> f, carry |-> f, overflow |-> f,
                trap |-> tr, user_mode |-> um, virtual_mode |-> vm]]

InitWith(c0) ==
    /\ cpu = c0
    /\ mem = <<>>
    /\ res = "Ok"
    /\ pre = [cpu |-> c0, mem |-> <<>>]
    /\ ins = <<>>
    /\ nfetch = 0
    /\ hist = <<>>
    /\ steps = 0
    /\ asm = <<>>
    /\ std = <<>>

\* any mode, few register values
Init ==
    \E v1 \in Vals(NCtlVals), v2 \in Vals(NCtlVals), f \in BOOLEAN, um \in BOOLEAN,
       tr \in BOOLEAN :
        InitWith(CpuWith(v1, v2, f, um, tr, FALSE, 256))

\* supervisor mode, many register values
InitAlu ==
    \E v1 \in Vals(NVals), v2 \in Vals(NVals), f \in BOOLEAN :
        InitWith(CpuWith(v1, v2, f, FALSE, FALSE, FALSE, 256))

\* supervisor mode, the stack pointer in the middle or at the top of memory
InitCall ==
    \E sp \in StackSamples, f \in BOOLEAN :
        InitWith(CpuWith(0, 1, f, FALSE, FALSE, FALSE, sp))

\* supervisor mode, many register values, the condition flags set
InitJump ==
    \E v1 \in Vals(NVals), v2 \in Vals(NVals) :
        InitWith(CpuWith(v1, v2, TRUE, FALSE, FALSE, FALSE, 256))

(***************************************************************************)
(* One step of the engine: the opcode byte op at the program counter is    *)
(* fetched, and the handler the table gives for it runs on the operand     *)
(* bytes ops that follow it.                                               *)
(***************************************************************************)
Hosts(faults, checkss, zrejects) ==
    [fault : faults, checks : checkss, zreject : zrejects]

\* a host whose memory does not fault, whose build does not check overflow
\* and whose wide zero register discards writes
PlainHost == [fault |-> FALSE, checks |-> FALSE, zreject |-> FALSE]

\* the engine runs on while the last handler returned Ok
CanStep(limit) == steps < limit /\ res = "Ok"

Exec(op, ops, host) ==
    /\ \E out \in {Run(OP_HANDLERS[op],
                       [cpu |-> [cpu EXCEPT !.program_counter = Wrap(@ + 1, 16)],
                        mem |-> mem, ops |-> ops, n |-> 0,
                        fault |-> host.fault, checks |-> host.checks,
                        zreject |-> host.zreject])} :
          /\ cpu' = out.c.cpu
          /\ mem' = out.c.mem
          /\ res' = out.r
          /\ nfetch' = out.c.n
    /\ pre' = [cpu |-> cpu, mem |-> mem]
    /\ ins' = <<op>> \o ops
    /\ hist' = Append(hist, [cpu |-> cpu, ins |-> <<op>> \o ops])
    /\ steps' = steps + 1
    /\ asm' = asm
    /\ std' = std

Ops(names) == {Opcode(x) : x \in names}

Assigned == Ops({OpNames[i] : i \in 1 .. Len(OpNames)})

NothingOps == Ops({"NULL", "HALT", "CTF", "SYSCALL", "RETH", "USR", "VMON", "VMOFF", "NOP"})

ByteBinops == Ops({"ADD_B", "SUB_B", "AND_B", "OR_B", "XOR_B", "SHL_B", "ASR_B", "LSR_B"})

WideBinops == Ops({"ADD_W", "SUB_W", "AND_W", "OR_W", "XOR_W", "SHL_W", "ASR_W", "LSR_W"})

Jumps == Ops({"JEZ", "JLT", "JLE", "JGT", "JGE", "JNZ", "JO", "JNO", "JB", "JAE", "JA", "JBE"})

\* an opcode byte with no instruction
StepUnassigned(limit) ==
    /\ CanStep(limit)
    /\ \E op \in Bytes \ Assigned : Exec(op, <<0, 0, 0, 0>>, PlainHost)

\* NULL, HALT, CTF, SYSCALL, RETH, USR, VMON, VMOFF, NOP
StepControl(limit) ==
    /\ CanStep(limit)
    /\ \E op \in NothingOps, host \in Hosts(BOOLEAN, {FALSE}, {FALSE}) :
           Exec(op, <<0, 0, 0, 0>>, host)

\* PSTORE br1, wr, br2 and PLOAD br1, br2, wr
StepPrivMem(limit) ==
    /\ CanStep(limit)
    /\ \E a \in Br, b \in Br, w \in Wr, z \in {0, 1}, host \in Hosts(BOOLEAN, {FALSE}, {FALSE}) :
           \/ Exec(Opcode("PSTORE"), <<pair(a, w), pair(b, z), 0, 0>>, host)
           \/ Exec(Opcode("PLOAD"), <<pair(a, b), pair(w, z), 0, 0>>, host)

\* the byte binops
StepBinopB(limit) ==
    /\ CanStep(limit)
    /\ \E op \in ByteBinops, a \in Br, b \in Br, d \in Br, z \in {0, 1},
          host \in Hosts({FALSE}, BOOLEAN, {FALSE}) :
           Exec(op, <<pair(a, b), pair(d, z), 0, 0>>, host)

\* the wide binops
StepBinopW(limit) ==
    /\ CanStep(limit)
    /\ \E op \in WideBinops, a \in Wr, b \in Wr, d \in Wr, z \in {0, 1},
          host \in Hosts({FALSE}, BOOLEAN, BOOLEAN) :
           Exec(op, <<pair(a, b), pair(d, z), 0, 0>>, host)

\* MUL and DIV
StepMulDiv(limit) ==
    /\ CanStep(limit)
    /\ \/ \E op \in Ops({"MUL_B", "DIV_B"}), a \in Br, b \in Br, d \in Br, e \in Br :
           Exec(op, <<pair(a, b), pair(d, e), 0, 0>>, PlainHost)
       \/ \E op \in Ops({"MUL_W", "DIV_W"}), a \in Wr, b \in Wr, d \in Wr, e \in Wr,
             host \in Hosts({FALSE}, {FALSE}, BOOLEAN) :
           Exec(op, <<pair(a, b), pair(d, e), 0, 0>>, host)

\* PUSH and POP
StepStack(limit) ==
    /\ CanStep(limit)
    /\ \/ \E op \in Ops({"PUSH_B", "POP_B"}), a \in Br, z \in {0, 1},
             host \in Hosts(BOOLEAN, {FALSE}, {FALSE}) :
           Exec(op, <<pair(a, z), 0, 0, 0>>, host)
       \/ \E op \in Ops({"PUSH_W", "POP_W"}), a \in Wr, z \in {0, 1},
             host \in Hosts(BOOLEAN, {FALSE}, BOOLEAN) :
           Exec(op, <<pair(a, z), 0, 0, 0>>, host)

\* CALL imm16
StepCall(limit) ==
    /\ CanStep(limit)
    /\ \E w \in Imm16 : Exec(Opcode("CALL"), <<lo(w), hi(w), 0, 0>>, PlainHost)

\* RET imm8
StepRet(limit) ==
    /\ CanStep(limit)
    /\ \E b \in Imm8, host \in Hosts({FALSE}, BOOLEAN, {FALSE}) :
           Exec(Opcode("RET"), <<b, 0, 0, 0>>, host)

\* the stores and loads with an immediate offset
StepMemImm(limit) ==
    /\ CanStep(limit)
    /\ \E op \in Ops({"STORE_BI", "STORE_WI", "LOAD_BI", "LOAD_WI"}), a \in Wr,
          b \in Wr, w \in Imm16, host \in Hosts(BOOLEAN, BOOLEAN, BOOLEAN) :
           Exec(op, <<pair(a, b), lo(w), hi(w), 0>>, host)

\* the stores and loads with a register offset
StepMemReg(limit) ==
    /\ CanStep(limit)
    /\ \E op \in Ops({"STORE_BR", "STORE_WR", "LOAD_BR", "LOAD_WR"}), a \in Wr,
          b \in Wr, d \in Wr, z \in {0, 1}, host \in Hosts(BOOLEAN, BOOLEAN, BOOLEAN) :
           Exec(op, <<pair(a, b), pair(d, z), 0, 0>>, host)

\* the conditional jumps, to one of the targets
StepJump(limit, targets) ==
    /\ CanStep(limit)
    /\ \E op \in Jumps, w \in targets : Exec(op, <<lo(w), hi(w), 0, 0>>, PlainHost)

\* LDI_B reg, imm8 and LDI_W reg, variant, imm16
StepLdi(limit) ==
    /\ CanStep(limit)
    /\ \/ \E a \in Br, z \in {0, 1}, b \in Imm8 :
           Exec(Opcode("LDI_B"), <<pair(a, z), b, 0, 0>>, PlainHost)
       \/ \E a \in Wr, o \in 0 .. 15, w \in Imm16, host \in Hosts({FALSE}, {FALSE}, BOOLEAN) :
           Exec(Opcode("LDI_W"), <<pair(a, o), lo(w), hi(w), 0>>, host)

\* SUB dest, a, b of either width, the first instruction of a run
StepSub ==
    /\ CanStep(1)
    /\ \/ \E r1 \in Br, r2 \in Br, r3 \in Br :
           Exec(Opcode("SUB_B"), <<pair(r1, r2), pair(r3, 0), 0, 0>>, PlainHost)
       \/ \E r1 \in Wr, r2 \in Wr, r3 \in Wr :
           Exec(Opcode("SUB_W"), <<pair(r1, r2), pair(r3, 0), 0, 0>>, PlainHost)

\* every instruction, one step
Next ==
    \/ StepUnassigned(1)
    \/ StepControl(1)
    \/ StepPrivMem(1)
    \/ StepBinopB(1)
    \/ StepBinopW(1)
    \/ StepMulDiv(1)
    \/ StepStack(1)
    \/ StepCall(1)
    \/ StepRet(1)
    \/ StepMemImm(1)
    \/ StepMemReg(1)
    \/ StepJump(1, Imm16)
    \/ StepLdi(1)

Spec == Init /\ [][Next]_vars

\* the arithmetic and logic instructions, one step
NextAlu ==
    \/ StepBinopB(1)
    \/ StepBinopW(1)
    \/ StepMulDiv(1)

SpecAlu == InitAlu /\ [][NextAlu]_vars

\* runs of calls and returns
NextCall ==
    \/ StepCall(MaxSteps)
    \/ StepRet(MaxSteps)

SpecCall == InitCall /\ [][NextCall]_vars

\* a subtraction, then a conditional jump
StepJumpAfterSub ==
    /\ steps = 1
    /\ StepJump(2, {Imm16Samples[1]})

NextJump ==
    \/ StepSub
    \/ StepJumpAfterSub

SpecJump == InitJump /\ [][NextJump]_vars

\* supervisor mode, paging on or off, few register values
InitMem ==
    \E v1 \in Vals(NCtlVals), v2 \in Vals(NCtlVals), vm \in BOOLEAN :
        InitWith(CpuWith(v1, v2, FALSE, FALSE, FALSE, vm, 256))

\* the hosts of a load or store: the build checks overflow or does not
MemHosts == Hosts({FALSE}, BOOLEAN, {FALSE})

\* a store, the first instruction of a run: base and offset registers among
\* r0, r1, r2, the value in r1l or r3l, resp. r1 or r3, and for PSTORE the
\* high byte in r0b, r1l or r1h
StepStore ==
    /\ CanStep(1)
    /\ \/ \E a \in {0, 1, 2}, b \in {1, 5}, w \in Imm16, host \in MemHosts :
           Exec(Opcode("STORE_BI"), <<pair(a, b), lo(w), hi(w), 0>>, host)
       \/ \E a \in {0, 1, 2}, b \in {1, 3}, w \in Imm16, host \in MemHosts :
           Exec(Opcode("STORE_WI"), <<pair(a, b), lo(w), hi(w), 0>>, host)
       \/ \E a \in {0, 1, 2}, o \in {0, 1, 2}, b \in {1, 5}, host \in MemHosts :
           Exec(Opcode("STORE_BR"), <<pair(a, o), pair(b, 0), 0, 0>>, host)
       \/ \E a \in {0, 1, 2}, o \in {0, 1, 2}, b \in {1, 3}, host \in MemHosts :
           Exec(Opcode("STORE_WR"), <<pair(a, o), pair(b, 0), 0, 0>>, host)
       \/ \E h \in {0, 1, 2}, w \in {0, 1, 2}, b \in {1, 5} :
           Exec(Opcode("PSTORE"), <<pair(h, w), pair(b, 0), 0, 0>>, PlainHost)

\* a load, the second instruction of a run: the destination is r0, r4l or
\* r1l, resp. r0, r4 or r1
StepLoad ==
    /\ steps = 1
    /\ CanStep(2)
    /\ \/ \E d \in {0, 7, 1}, a \in {0, 1, 2}, w \in Imm16, host \in MemHosts :
           Exec(Opcode("LOAD_BI"), <<pair(d, a), lo(w), hi(w), 0>>, host)
       \/ \E d \in {0, 4, 1}, a \in {0, 1, 2}, w \in Imm16, host \in MemHosts :
           Exec(Opcode("LOAD_WI"), <<pair(d, a), lo(w), hi(w), 0>>, host)
       \/ \E d \in {0, 7, 1}, a \in {0, 1, 2}, o \in {0, 1, 2}, host \in MemHosts :
           Exec(Opcode("LOAD_BR"), <<pair(d, a), pair(o, 0), 0, 0>>, host)
       \/ \E d \in {0, 4, 1}, a \in {0, 1, 2}, o \in {0, 1, 2}, host \in MemHosts :
           Exec(Opcode("LOAD_WR"), <<pair(d, a), pair(o, 0), 0, 0>>, host)
       \/ \E d \in {0, 7, 1}, h \in {0, 1, 2}, w \in {0, 1, 2} :
           Exec(Opcode("PLOAD"), <<pair(d, h), pair(w, 0), 0, 0>>, PlainHost)

\* a store, then a load
NextMem ==
    \/ StepStore
    \/ StepLoad

SpecMem == InitMem /\ [][NextMem]_vars

\* any mode outside a handler, paging on or off, few register values
InitTrap ==
    \E v1 \in Vals(NCtlVals), v2 \in Vals(NCtlVals), f \in BOOLEAN, um \in BOOLEAN,
       vm \in BOOLEAN :
        InitWith(CpuWith(v1, v2, f, um, FALSE, vm, 256))

\* the mark the trap engine's entry leaves where an instruction leaves its
\* opcode byte
TrapEntry == 256

\* an instruction that can trap, the first of a run: an unassigned byte,
\* SYSCALL, RETH, USR, DIV_W r1, r2, r1, r0, ADD_W r0, r1, r2, POP_W r0 and
\* LOAD_BI r1l, [r0 + imm]
StepFault ==
    /\ CanStep(1)
    /\ \/ \E op \in {255} \cup Ops({"SYSCALL", "RETH", "USR"}) :
           Exec(op, <<0, 0, 0, 0>>, PlainHost)
       \/ Exec(Opcode("DIV_W"), <<pair(1, 2), pair(1, 0), 0, 0>>, PlainHost)
       \/ \E host \in Hosts({FALSE}, {FALSE}, BOOLEAN) :
           \/ Exec(Opcode("ADD_W"), <<pair(0, 1), pair(2, 0), 0, 0>>, host)
           \/ Exec(Opcode("POP_W"), <<pair(0, 0), 0, 0, 0>>, host)
       \/ \E w \in Imm16, host \in Hosts(BOOLEAN, {FALSE}, {FALSE}) :
           Exec(Opcode("LOAD_BI"), <<pair(1, 0), lo(w), hi(w), 0>>, host)

\* the trap engine's entry: outside a handler, save the registers, switch to
\* supervisor mode and set trap
enter_handler ==
    /\ res \in TrapModes \ {"Halt"}
    /\ ~cpu.flags.trap
    /\ \E out \in {push_registers([cpu |-> cpu, mem |-> mem, ops |-> <<>>, n |-> 0,
                                   fault |-> FALSE, checks |-> FALSE, zreject |-> FALSE])} :
          /\ cpu' = out.c.cpu
          /\ mem' = out.c.mem
          /\ res' = out.r
    /\ nfetch' = 0
    /\ pre' = [cpu |-> cpu, mem |-> mem]
    /\ ins' = <<TrapEntry>>
    /\ hist' = Append(hist, [cpu |-> cpu, ins |-> <<TrapEntry>>])
    /\ steps' = steps + 1
    /\ asm' = asm
    /\ std' = std

\* the trap engine enters the handler for the trap the instruction returned
TrapEnter ==
    /\ steps = 1
    /\ enter_handler

\* the handler's only instruction: RETH
StepReth ==
    /\ steps = 2
    /\ CanStep(3)
    /\ \E host \in Hosts(BOOLEAN, {FALSE}, {FALSE}) :
           Exec(Opcode("RETH"), <<0, 0, 0, 0>>, host)

\* an instruction, the trap it returns, and the return from the handler
NextTrap ==
    \/ StepFault
    \/ TrapEnter
    \/ StepReth

SpecTrap == InitTrap /\ [][NextTrap]_vars

\* a supervisor-mode start outside a handler, paging on or off
InitSupervisor ==
    \E v1 \in Vals(NCtlVals), v2 \in Vals(NCtlVals), f \in BOOLEAN, vm \in BOOLEAN :
        InitWith(CpuWith(v1, v2, f, FALSE, FALSE, vm, 256))

\* the code that runs from there, handler code included: NULL, HALT, CTF,
\* SYSCALL, RETH, USR, VMON, VMOFF, NOP
StepMode ==
    /\ CanStep(MaxSteps)
    /\ \E op \in NothingOps : Exec(op, <<0, 0, 0, 0>>, PlainHost)

\* the trap engine enters the handler whenever an instruction trapped
TrapTaken ==
    /\ steps < MaxSteps
    /\ enter_handler

NextModes ==
    \/ StepMode
    \/ TrapTaken

SpecModes == InitSupervisor /\ [][NextModes]_vars

(***************************************************************************)
(* The assembler: operands and their bytes.                                *)
(***************************************************************************)
\* Wide::Number and Wide::Label
Number(k) == [label |-> FALSE, n |-> k]

Label(id) == [label |-> TRUE, n |-> id]

\* a DataOperand: its variant, its registers in order, its byte and its wide
DataOperand(shape, r, b, w) == [shape |-> shape, r |-> r, b |-> b, w |-> w]

Shapes ==
    <<"Nothing", "ByteRegister", "WideRegister", "ImmediateByte", "ImmediateWide",
      "ByteImm", "WideImm", "WideImmByte", "WideImmWide", "TwoWideOneByte",
      "ByteWideImm", "TwoWideImm", "ByteTwoWide", "ThreeByte", "ThreeWide",
      "FourByte", "FourWide">>

\* DataOperand::size
size(dat_op) ==
    CASE dat_op.shape = "Nothing" -> 0
      [] dat_op.shape \in {"ByteRegister", "WideRegister", "ImmediateByte"} -> 1
      [] dat_op.shape \in {"ImmediateWide", "ByteImm"} -> 2
      [] dat_op.shape = "WideImm" -> 3
      [] dat_op.shape \in {"WideImmByte", "WideImmWide"} -> 4
      [] dat_op.shape = "TwoWideOneByte" -> 2
      [] dat_op.shape = "ByteWideImm" -> 4
      [] dat_op.shape = "TwoWideImm" -> 3
      [] OTHER -> 2

\* parse_wide: a label is read through the closure, here the addresses by id
parse_wide(w, read_label) == IF w.label THEN read_label[w.n] ELSE w.n

to_le_bytes_high_first(w) == <<w \div 256, w % 256>>

\* u16::to_le_bytes
to_le_bytes(w) == <<w % 256, w \div 256>>

\* write_data_operand: m (mem) with the operand bytes of dat_op pushed
write_data_operand(m, read_label, dat_op) ==
    CASE dat_op.shape = "Nothing" -> m
      [] dat_op.shape \in {"ByteRegister", "WideRegister"} ->
             m \o <<pair(dat_op.r[1], 0)>>
      [] dat_op.shape = "ImmediateByte" -> m \o <<dat_op.b>>
      [] dat_op.shape = "ImmediateWide" ->
             m \o to_le_bytes(parse_wide(dat_op.w, read_label))
      [] dat_op.shape = "ByteImm" -> m \o <<pair(dat_op.r[1], 0), dat_op.b>>
      [] dat_op.shape = "WideImm" ->
             m \o <<pair(dat_op.r[1], 0)>> \o to_le_bytes(parse_wide(dat_op.w, read_label))
      [] dat_op.shape \in {"WideImmByte", "WideImmWide", "ByteWideImm", "TwoWideImm"} ->
             m \o <<pair(dat_op.r[1], dat_op.r[2])>>
               \o to_le_bytes(parse_wide(dat_op.w, read_label))
      [] dat_op.shape \in {"TwoWideOneByte", "ByteTwoWide", "ThreeByte", "ThreeWide"} ->
             m \o <<pair(dat_op.r[1], dat_op.r[2]), pair(dat_op.r[3], 0)>>
      [] OTHER -> m \o <<pair(dat_op.r[1], dat_op.r[2]), pair(dat_op.r[3], dat_op.r[4])>>

\* how many registers a DataOperand variant holds, and whether it holds a
\* byte or a wide
Registers(shape) ==
    CASE shape \in {"Nothing", "ImmediateByte", "ImmediateWide"} -> 0
      [] shape \in {"ByteRegister", "WideRegister", "ByteImm", "WideImm"} -> 1
      [] shape \in {"WideImmByte", "WideImmWide", "ByteWideImm", "TwoWideImm"} -> 2
      [] shape \in {"FourByte", "FourWide"} -> 4
      [] OTHER -> 3

HasByte(shape) == shape \in {"ImmediateByte", "ByteImm"}

HasWide(shape) ==
    shape \in {"ImmediateWide", "WideImm", "WideImmByte", "WideImmWide", "ByteWideImm",
               "TwoWideImm"}

\* the opcodes parse_ins pairs with a DataOperand variant; WideImm is only
\* ever rewritten to TwoWideImm
ShapeOpcodes(shape) ==
    CASE shape = "Nothing" -> {"NULL", "HALT", "CTF", "RETH", "NOP"}
      [] shape = "ByteRegister" -> {"PUSH_B", "POP_B"}
      [] shape = "WideRegister" -> {"PUSH_W", "POP_W"}
      [] shape = "ImmediateByte" -> {"RET"}
      [] shape = "ImmediateWide" -> {"CALL", "JEZ", "JBE"}
      [] shape = "ByteImm" -> {"LDI_B"}
      [] shape = "WideImm" -> {"none"}
      [] shape = "WideImmByte" -> {"STORE_BI"}
      [] shape = "WideImmWide" -> {"STORE_WI"}
      [] shape = "TwoWideOneByte" -> {"STORE_BR"}
      [] shape = "ByteWideImm" -> {"LOAD_BI"}
      [] shape = "TwoWideImm" -> {"LOAD_WI", "LDI_W"}
      [] shape = "ByteTwoWide" -> {"LOAD_BR"}
      [] shape = "ThreeByte" -> {"ADD_B", "XOR_B", "LSR_B"}
      [] shape = "ThreeWide" -> {"ADD_W", "XOR_W", "STORE_WR", "LOAD_WR"}
      [] shape = "FourByte" -> {"MUL_B", "DIV_B"}
      [] OTHER -> {"MUL_W", "DIV_W"}

\* register selectors: r1 r2 r3 r0 and two more
RegSamples == <<1, 2, 3, 0, 15, 10>>

Regs == {RegSamples[i] : i \in 1 .. NSel + 1}

\* the operand tuples of a variant
Tuples(shape) ==
    {DataOperand(shape, r, b, Number(w)) :
        r \in [1 .. Registers(shape) -> Regs],
        b \in IF HasByte(shape) THEN Imm8 ELSE {0},
        w \in IF HasWide(shape) THEN Imm16 ELSE {0}}

\* the decoders a handler applies to the operand bytes of a variant
Decoders(shape) ==
    CASE shape = "Nothing" -> <<>>
      [] shape \in {"ByteRegister", "WideRegister"} -> <<"arg_pair">>
      [] shape = "ImmediateByte" -> <<"arg_imm_byte">>
      [] shape = "ImmediateWide" -> <<"arg_imm_wide">>
      [] shape = "ByteImm" -> <<"arg_pair", "arg_imm_byte">>
      [] HasWide(shape) -> <<"arg_pair", "arg_imm_wide">>
      [] OTHER -> <<"arg_pair", "arg_pair">>

\* the context a handler decodes the operand bytes in
DecodeContext(bytes) ==
    [cpu |-> CpuWith(1, 2, FALSE, FALSE, FALSE, FALSE, 256), mem |-> <<>>,
     ops |-> bytes \o <<0, 0, 0, 0>>, n |-> 0,
     fault |-> FALSE, checks |-> FALSE, zreject |-> FALSE]

RECURSIVE Decode(_, _)
\* the values the decoders ds yield in context c, in order
Decode(c, ds) ==
    IF ds = <<>> THEN <<>>
    ELSE CASE Head(ds) = "arg_pair" ->
                  <<arg_pair(c).v>> \o Decode(arg_pair(c).c, Tail(ds))
           [] Head(ds) = "arg_imm_byte" ->
                  <<arg_imm_byte(c).v>> \o Decode(arg_imm_byte(c).c, Tail(ds))
           [] OTHER ->
                  <<arg_imm_wide(c).v>> \o Decode(arg_imm_wide(c).c, Tail(ds))

\* the handler of the named opcode, run on the operand bytes
Handled(opcode, bytes) ==
    IF opcode = "none" THEN Ok(DecodeContext(bytes))
    ELSE Run(OP_HANDLERS[Opcode(opcode)], DecodeContext(bytes))

\* the assembler before it writes the operand dat_op of an opcode
Operand(dat_op, opcode) ==
    [phase |-> "operand", dat_op |-> dat_op, opcode |-> opcode, bytes |-> <<>>,
     decoded |-> <<>>, result |-> "", fetched |-> 0]

\* LDI_W is given r0 or r1 as its second register
InitEncode ==
    /\ cpu = CpuWith(1, 2, FALSE, FALSE, FALSE, FALSE, 256)
    /\ mem = <<>>
    /\ res = "Ok"
    /\ pre = [cpu |-> cpu, mem |-> <<>>]
    /\ ins = <<>>
    /\ nfetch = 0
    /\ hist = <<>>
    /\ steps = 0
    /\ \E i \in 1 .. Len(Shapes) :
          \E dat_op \in Tuples(Shapes[i]), opcode \in ShapeOpcodes(Shapes[i]) :
              /\ opcode = "LDI_W" => dat_op.r[2] \in {0, 1}
              /\ asm = Operand(dat_op, opcode)
    /\ std = <<>>

\* the operand is written, and the bytes are decoded and handled
Encode ==
    /\ asm.phase = "operand"
    /\ \E bytes \in {write_data_operand(<<>>, <<>>, asm.dat_op)} :
          \E out \in {Handled(asm.opcode, bytes)} :
              asm' = [asm EXCEPT !.phase = "encoded",
                                 !.bytes = bytes,
                                 !.decoded = Decode(DecodeContext(bytes),
                                                    Decoders(asm.dat_op.shape)),
                                 !.result = out.r,
                                 !.fetched = out.c.n]
    /\ UNCHANGED <<machine, std>>

NextEncode == Encode

SpecEncode == InitEncode /\ [][NextEncode]_vars

(***************************************************************************)
(* The older assembler: an operand that is a register or an immediate.     *)
(***************************************************************************)
\* BReg and WReg as u8: Zero = 0 .. Io = 7, Zero = 0 .. S = 7
BReg == 0 .. 7

WReg == 0 .. 7

\* BBigR::Register, BBigR::Byte, WBigR::Register and WBigR::Wide
BBigR_Register(r) == [register |-> TRUE, label |-> FALSE, v |-> r]

BBigR_Byte(b) == [register |-> FALSE, label |-> FALSE, v |-> b]

WBigR_Register(r) == [register |-> TRUE, label |-> FALSE, v |-> r]

WBigR_Wide(w) == [register |-> FALSE, label |-> w.label, v |-> w.n]

\* StdResult<_, &'static str>
Encoded(bytes) == [ok |-> TRUE, bytes |-> bytes, err |-> ""]

Rejected(err) == [ok |-> FALSE, bytes |-> <<>>, err |-> err]

\* u8::checked_add and u16::checked_add: whether the sum has the width
checked_add(a, b, width) == a + b < Pow2(width)

big_r_to_byte(br) ==
    IF br.register THEN Encoded(<<br.v>>)
    ELSE IF br.v = 0 THEN Encoded(<<0>>)
    ELSE IF checked_add(br.v, 7, 8) THEN Encoded(<<br.v + 7>>)
    ELSE Rejected("immediate between 1-247")

big_r_to_wide(wr, id_to_pos) ==
    IF wr.register THEN Encoded(to_le_bytes(wr.v))
    ELSE LET w == parse_wide([label |-> wr.label, n |-> wr.v], id_to_pos)
         IN IF w = 0 THEN Encoded(to_le_bytes(0))
            ELSE IF checked_add(w, 7, 16) THEN Encoded(to_le_bytes(w + 7))
            ELSE Rejected("immediate between 1-247")

\* wide immediates around the ends of the range, and the address of label 1
WideImmediates == {0, 1, 247, 248, 249, 65527, 65528, 65529, 65535}

LabelAddresses == <<16>>

\* every byte operand, and wide operands: registers, numbers and a label
InitBigR ==
    /\ cpu = CpuWith(1, 2, FALSE, FALSE, FALSE, FALSE, 256)
    /\ mem = <<>>
    /\ res = "Ok"
    /\ pre = [cpu |-> cpu, mem |-> <<>>]
    /\ ins = <<>>
    /\ nfetch = 0
    /\ hist = <<>>
    /\ steps = 0
    /\ std = <<>>
    /\ \/ \E br \in {BBigR_Register(r) : r \in BReg} \cup {BBigR_Byte(b) : b \in 0 .. 255} :
              asm = [phase |-> "byte", big_r |-> br, out |-> Rejected("")]
       \/ \E wr \in {WBigR_Register(r) : r \in WReg}
                        \cup {WBigR_Wide(Number(w)) : w \in WideImmediates}
                        \cup {WBigR_Wide(Label(1))} :
              asm = [phase |-> "wide", big_r |-> wr, out |-> Rejected("")]

\* write_data_op: ByteBigR
EncodeByteBigR ==
    /\ asm.phase = "byte"
    /\ asm' = [asm EXCEPT !.phase = "byte written", !.out = big_r_to_byte(asm.big_r)]
    /\ UNCHANGED <<machine, std>>

\* write_data_op: WideBigR
EncodeWideBigR ==
    /\ asm.phase = "wide"
    /\ asm' = [asm EXCEPT !.phase = "wide written",
                          !.out = big_r_to_wide(asm.big_r, LabelAddresses)]
    /\ UNCHANGED <<machine, std>>

NextBigR ==
    \/ EncodeByteBigR
    \/ EncodeWideBigR

SpecBigR == InitBigR /\ [][NextBigR]_vars

(***************************************************************************)
(* The assembler: labels.                                                  *)
(***************************************************************************)
\* no label yet
NoSymbols == [labels |-> <<>>, id_to_pos |-> <<>>]

\* whether the label has an id, and the id it has
Known(sym, lbl) == \E i \in 1 .. Len(sym.labels) : sym.labels[i] = lbl

IdOf(sym, lbl) == CHOOSE i \in 1 .. Len(sym.labels) : sym.labels[i] = lbl

\* LabelMaker::find_id: a label seen for the first time gets the next id and
\* an empty list of use sites; `at` remembers for a defined label how many
\* data lines its segment held when it was defined
find_id(sym, lbl) ==
    IF Known(sym, lbl) THEN sym
    ELSE [labels |-> Append(sym.labels, lbl),
          id_to_pos |-> Append(sym.id_to_pos,
                               [defined |-> FALSE, addr |-> <<"Unknown", 0>>, at |-> 0,
                                uses |-> <<>>, st |-> "Internal"])]

\* a set_label that moves a label defined before to its second definition
set_label_found_moves(sym, id, addr, at) ==
    [ok |-> ~sym.id_to_pos[id].defined,
     sym |-> [sym EXCEPT !.id_to_pos[id] =
                  [defined |-> TRUE, addr |-> addr, at |-> at, uses |-> <<>>,
                   st |-> sym.id_to_pos[id].st]]]

\* LabelMaker::set_label, after find_id: a second definition is an error
set_label_found(sym, id, addr, at) ==
    IF sym.id_to_pos[id].defined THEN [ok |-> FALSE, sym |-> sym]
    ELSE [ok |-> TRUE,
          sym |-> [sym EXCEPT !.id_to_pos[id] =
                       [defined |-> TRUE, addr |-> addr, at |-> at, uses |-> <<>>,
                        st |-> sym.id_to_pos[id].st]]]

set_label(sym, lbl, addr, at) ==
    set_label_found(find_id(sym, lbl), IdOf(find_id(sym, lbl), lbl), addr, at)

\* LabelMaker::read_label, after find_id: a use of a label not defined so
\* far is pushed to its use sites
read_label_found(sym, id, loc) ==
    [sym |-> IF sym.id_to_pos[id].defined THEN sym
             ELSE [sym EXCEPT !.id_to_pos[id].uses = Append(@, loc)],
     id |-> id]

read_label(sym, lbl, loc) ==
    read_label_found(find_id(sym, lbl), IdOf(find_id(sym, lbl), lbl), loc)

\* Symbols::set_global and Symbols::set_reference: the symbol's visibility
set_global(sym, id) == [sym EXCEPT !.id_to_pos[id].st = "Global"]

set_reference(sym, id) == [sym EXCEPT !.id_to_pos[id].st = "Reference"]

(***************************************************************************)
(* The assembler: instructions.                                            *)
(***************************************************************************)
\* a SourceOperand: a register or a number, or a label
SourceOperand(kind, v) == [kind |-> kind, v |-> v, l |-> ""]

SourceLabel(l) == [kind |-> "Label", v |-> 0, l |-> l]

\* one operand read as DataOperand::byte, wide, imm_byte or imm_wide reads
\* it: whether it is one, its value, and the symbols after the read
ReadOperand(want, op, sym, sl) ==
    CASE want = "byte" -> [ok |-> op.kind = "ByteReg", v |-> op.v, sym |-> sym]
      [] want = "wide" -> [ok |-> op.kind = "WideReg", v |-> op.v, sym |-> sym]
      [] want = "imm_byte" ->
             [ok |-> op.kind \in {"Number", "Byte"},
              v |-> IF op.kind \in {"Number", "Byte"} THEN op.v % 256 ELSE 0, sym |-> sym]
      [] OTHER ->
             IF op.kind \in {"Number", "Wide"}
             THEN [ok |-> TRUE, v |-> Number(op.v % Pow2(16)), sym |-> sym]
             ELSE IF op.kind = "Label"
             THEN [ok |-> TRUE, v |-> Label(read_label(sym, op.l, sl).id),
                   sym |-> read_label(sym, op.l, sl).sym]
             ELSE [ok |-> FALSE, v |-> Number(0), sym |-> sym]

\* the DataOperand::parse_* functions: the variant built, what each operand
\* is read as, how many operands are taken before any is read (0: each is
\* taken as it is read), and whether parse_nothing must succeed after them
Parser(shape, wants, taken, end) ==
    [shape |-> shape, wants |-> wants, taken |-> taken, end |-> end]

Parsers ==
    [parse_nothing |-> Parser("Nothing", <<>>, 0, TRUE),
     parse_breg |-> Parser("ByteRegister", <<"byte">>, 0, TRUE),
     parse_wreg |-> Parser("WideRegister", <<"wide">>, 0, TRUE),
     parse_imm_byte |-> Parser("ImmediateByte", <<"imm_byte">>, 0, TRUE),
     parse_imm_wide |-> Parser("ImmediateWide", <<"imm_wide">>, 0, TRUE),
     parse_byte_imm |-> Parser("ByteImm", <<"byte", "imm_byte">>, 2, FALSE),
     parse_wide_imm |-> Parser("WideImm", <<"wide", "imm_wide">>, 2, FALSE),
     parse_three_byte |-> Parser("ThreeByte", <<"byte", "byte", "byte">>, 3, FALSE),
     parse_three_wide |-> Parser("ThreeWide", <<"wide", "wide", "wide">>, 3, FALSE),
     parse_wide_imm_byte |-> Parser("WideImmByte", <<"wide", "imm_wide", "byte">>, 0, FALSE),
     parse_wide_imm_wide |-> Parser("WideImmWide", <<"wide", "imm_wide", "wide">>, 0, FALSE),
     parse_two_wide_one_byte |->
         Parser("TwoWideOneByte", <<"wide", "wide", "byte">>, 0, FALSE),
     parse_byte_wide_imm |-> Parser("ByteWideImm", <<"byte", "wide", "imm_wide">>, 0, FALSE),
     parse_two_wide_imm |-> Parser("TwoWideImm", <<"wide", "wide", "imm_wide">>, 0, FALSE),
     parse_byte_two_wide |-> Parser("ByteTwoWide", <<"byte", "wide", "wide">>, 0, FALSE),
     parse_four_byte |-> Parser("FourByte", <<"byte", "byte", "byte", "byte">>, 4, FALSE),
     parse_four_wide |-> Parser("FourWide", <<"wide", "wide", "wide", "wide">>, 4, FALSE)]

\* the operand so far, with one more value read as `want`
WithValue(d, want, v) ==
    CASE want \in {"byte", "wide"} -> [d EXCEPT !.r = Append(@, v)]
      [] want = "imm_byte" -> [d EXCEPT !.b = v]
      [] OTHER -> [d EXCEPT !.w = v]

RECURSIVE ParseFrom(_, _, _, _, _, _)
\* the k-th operand read as x, and the rest parsed after it
ParseNext(p, ops, k, d, x, sl) ==
    IF ~x.ok THEN [ok |-> FALSE, dat_op |-> d, sym |-> x.sym]
    ELSE ParseFrom(p, ops, k + 1, WithValue(d, p.wants[k], x.v), x.sym, sl)

\* the operands from the k-th on parsed by p
ParseFrom(p, ops, k, d, sym, sl) ==
    IF k > Len(p.wants)
    THEN [ok |-> ~p.end \/ Len(ops) = Len(p.wants), dat_op |-> d, sym |-> sym]
    ELSE IF k > Len(ops) THEN [ok |-> FALSE, dat_op |-> d, sym |-> sym]
    ELSE ParseNext(p, ops, k, d, ReadOperand(p.wants[k], ops[k], sym, sl), sl)

\* one DataOperand::parse_* function applied to the operands
Parse(name, ops, sym, sl) ==
    IF Len(ops) < Parsers[name].taken
    THEN [ok |-> FALSE, dat_op |-> DataOperand("Nothing", <<>>, 0, Number(0)), sym |-> sym]
    ELSE ParseFrom(Parsers[name], ops, 1,
                   DataOperand(Parsers[name].shape, <<>>, 0, Number(0)), sym, sl)

NothingMnemonics == {"null", "halt", "ctf", "reth", "nop"}

JumpMnemonics ==
    {"jez", "jlt", "jle", "jgt", "jge", "jnz", "jne", "jo", "jno", "jb", "jc", "jae",
     "jnc", "ja", "jbe"}

BinopMnemonics == {"add", "sub", "and", "or", "xor", "shl", "asr", "lsr"}

\* the opcode of a mnemonic that has one, by width
Upper(s) ==
    CASE s = "null" -> "NULL" [] s = "halt" -> "HALT" [] s = "ctf" -> "CTF"
      [] s = "reth" -> "RETH" [] s = "nop" -> "NOP"
      [] s = "jez" -> "JEZ" [] s = "jlt" -> "JLT" [] s = "jle" -> "JLE"
      [] s = "jgt" -> "JGT" [] s = "jge" -> "JGE" [] s \in {"jnz", "jne"} -> "JNZ"
      [] s = "jo" -> "JO" [] s = "jno" -> "JNO" [] s \in {"jb", "jc"} -> "JB"
      [] s \in {"jae", "jnc"} -> "JAE" [] s = "ja" -> "JA" [] s = "jbe" -> "JBE"
      [] s = "add" -> "ADD" [] s = "sub" -> "SUB" [] s = "and" -> "AND"
      [] s = "or" -> "OR" [] s = "xor" -> "XOR" [] s = "shl" -> "SHL"
      [] s = "asr" -> "ASR" [] s = "lsr" -> "LSR" [] s = "mul" -> "MUL"
      [] s = "div" -> "DIV" [] s = "push" -> "PUSH" [] s = "pop" -> "POP"
      [] OTHER -> "NULL"

\* the parse functions parse_ins tries for a mnemonic, in order, each with
\* the opcode it gives
Attempts(s) ==
    CASE s \in NothingMnemonics -> <<<<"parse_nothing", Upper(s)>>>>
      [] s \in {"push", "pop"} ->
             <<<<"parse_breg", Upper(s) \o "_B">>, <<"parse_wreg", Upper(s) \o "_W">>>>
      [] s = "call" -> <<<<"parse_imm_wide", "CALL">>>>
      [] s = "ret" -> <<<<"parse_nothing", "RET">>, <<"parse_imm_byte", "RET">>>>
      [] s \in {"store", "str"} ->
             <<<<"parse_wide_imm_byte", "STORE_BI">>, <<"parse_wide_imm_wide", "STORE_WI">>,
               <<"parse_two_wide_one_byte", "STORE_BR">>, <<"parse_three_wide", "STORE_WR">>>>
      [] s = "load" ->
             <<<<"parse_byte_wide_imm", "LOAD_BI">>, <<"parse_two_wide_imm", "LOAD_WI">>,
               <<"parse_byte_two_wide", "LOAD_BR">>, <<"parse_three_wide", "LOAD_WR">>>>
      [] s \in JumpMnemonics -> <<<<"parse_imm_wide", Upper(s)>>>>
      [] s = "ldi" -> <<<<"parse_byte_imm", "LDI_B">>, <<"parse_wide_imm", "LDI_W">>>>
      [] s \in {"jmp", "jump"} -> <<<<"parse_imm_wide", "LDI_W">>, <<"parse_wreg", "LDI_W">>>>
      [] s \in BinopMnemonics ->
             <<<<"parse_three_byte", Upper(s) \o "_B">>,
               <<"parse_three_wide", Upper(s) \o "_W">>>>
      [] s \in {"mul", "div"} ->
             <<<<"parse_four_byte", Upper(s) \o "_B">>, <<"parse_four_wide", Upper(s) \o "_W">>>>
      [] OTHER -> <<>>

\* what parse_ins makes of the operand a parse function built: ret without
\* operand returns 0, ldi of a wide is LDI_W r, r0, and jmp is LDI_W r0, r1
\* with the address or LDI_W r, r1 with 0, r0 being no jump destination
Built(s, d) ==
    CASE s = "ret" /\ d.shape = "Nothing" ->
             [ok |-> TRUE, dat_op |-> DataOperand("ImmediateByte", <<>>, 0, Number(0))]
      [] s = "ldi" /\ d.shape = "WideImm" ->
             [ok |-> TRUE, dat_op |-> DataOperand("TwoWideImm", <<d.r[1], R0>>, 0, d.w)]
      [] s \in {"jmp", "jump"} /\ d.shape = "ImmediateWide" ->
             [ok |-> TRUE, dat_op |-> DataOperand("TwoWideImm", <<R0, 1>>, 0, d.w)]
      [] s \in {"jmp", "jump"} /\ d.shape = "WideRegister" ->
             [ok |-> d.r[1] # R0,
              dat_op |-> DataOperand("TwoWideImm", <<d.r[1], 1>>, 0, Number(0))]
      [] OTHER -> [ok |-> TRUE, dat_op |-> d]

RECURSIVE Try(_, _, _, _, _, _)
\* the k-th attempt gave x: its operand, or the next attempt with the
\* symbols the failed attempt left
Tried(s, ops, as, k, x, sl) ==
    IF x.ok
    THEN [ok |-> Built(s, x.dat_op).ok, opcode |-> as[k][2],
          dat_op |-> Built(s, x.dat_op).dat_op, sym |-> x.sym]
    ELSE Try(s, ops, as, k + 1, x.sym, sl)

\* the attempts from the k-th on
Try(s, ops, as, k, sym, sl) ==
    IF k > Len(as)
    THEN [ok |-> FALSE, opcode |-> "NULL",
          dat_op |-> DataOperand("Nothing", <<>>, 0, Number(0)), sym |-> sym]
    ELSE Tried(s, ops, as, k, Parse(as[k][1], ops, sym, sl), sl)

\* parse_ins
parse_ins(s, ops, sym, sl) == Try(s, ops, Attempts(s), 1, sym, sl)

(***************************************************************************)
(* The assembler: the two passes.                                          *)
(***************************************************************************)
\* how many source lines are read
MaxLines == 3

\* the segments in the order of the image, before them the segment of lines
\* that precede every .seg
SegmentTypes == <<"Unknown", "text", "rodata", "data", "heap">>

SEGMENT_ALIGNMENT == 16

\* align: a rounded up to a multiple of to
align(a, to) == ((a + to - 1) \div to) * to

\* SourceLine variants
SrcLabel(l) == [line |-> "Label", s |-> l, ops |-> <<>>]

SrcIns(s, ops) == [line |-> "Ins", s |-> s, ops |-> ops]

DirSeg(seg) == [line |-> "DirSeg", s |-> seg, ops |-> <<>>]

DirByte(b) == [line |-> "DirByte", s |-> "", ops |-> <<SourceOperand("Byte", b)>>]

DirWide(w) == [line |-> "DirWide", s |-> "", ops |-> <<w>>]

DirString(bytes) ==
    [line |-> "DirString", s |-> "",
     ops |-> [i \in 1 .. Len(bytes) |-> SourceOperand("Byte", bytes[i])]]

DirEntry == [line |-> "DirEntry", s |-> "", ops |-> <<>>]

DirGlobal(l) == [line |-> "DirGlobal", s |-> l, ops |-> <<>>]

DirReference(l) == [line |-> "DirReference", s |-> l, ops |-> <<>>]

DirInclude(path) == [line |-> "DirInclude", s |-> path, ops |-> <<>>]

Comment == [line |-> "Comment", s |-> "", ops |-> <<>>]

\* SourceLocation::new
SourceLocation(src, ln) == [source |-> src, line_number |-> ln]

\* DataLine variants
DataIns(opcode, dat_op) == [line |-> "Ins", opcode |-> opcode, dat_op |-> dat_op, raw |-> <<>>]

DataWide(w) ==
    [line |-> "Wide", opcode |-> "NULL", dat_op |-> DataOperand("ImmediateWide", <<>>, 0, w),
     raw |-> <<>>]

DataRaw(bytes) ==
    [line |-> "Raw", opcode |-> "NULL", dat_op |-> DataOperand("Nothing", <<>>, 0, Number(0)),
     raw |-> bytes]

\* ProcessState::new with Symbols::new, no line read.  src, ln and
\* current_segment are those of the file being read, files holds them for the
\* files that include it, entry is empty or holds the Address of .entry and
\* how many data lines its segment held at the directive;
\* source holds the lines read so far and read the location of each;
\* labels, symtab, entry_point, start and image are what process returns
NewProcess ==
    [phase |-> "lines", src |-> "main", ln |-> 0, current_segment |-> "Unknown",
     files |-> <<>>, symbols |-> NoSymbols, entry |-> <<>>, checks |-> FALSE,
     dls |-> [st \in {} |-> 0], error |-> <<>>, source |-> <<>>, read |-> <<>>,
     labels |-> <<>>, symtab |-> <<>>, entry_point |-> <<>>,
     start |-> [st \in {} |-> 0], image |-> [st \in {} |-> 0]]

\* ProcessState::get_size
get_size(a, st) == IF st \in DOMAIN a.dls THEN a.dls[st].size ELSE 0

\* the host aborts in u16 arithmetic that overflows, if the build checks it
Aborted(a) == [a EXCEPT !.phase = "panic"]

\* ProcessState::add_line
add_line(a, st, line, sz) ==
    IF a.checks /\ Overflows(get_size(a, st) + sz) THEN Aborted(a)
    ELSE [a EXCEPT !.dls =
             (st :> [lines |-> (IF st \in DOMAIN a.dls THEN a.dls[st].lines ELSE <<>>)
                                   \o <<line>>,
                     size |-> Wrap(get_size(a, st) + sz, 16)]) @@ a.dls]

\* ProcessState::unknown_defined
unknown_defined(a) == "Unknown" \in DOMAIN a.dls

\* process returns with the error e of the line just read
LineError(a, e) ==
    [a EXCEPT !.phase = "done",
              !.error = <<[src |-> a.src, ln |-> a.ln, label |-> "", e |-> e]>>]

\* the end of the loop body of inner_process
LineDone(a) ==
    CASE a.phase = "panic" -> a
      [] unknown_defined(a) -> LineError(a, "no segment was started")
      [] OTHER -> a

\* how many data lines the current segment holds
LinesHeld(a) ==
    IF a.current_segment \in DOMAIN a.dls THEN Len(a.dls[a.current_segment].lines) ELSE 0

\* inner_process, SourceLine::Label, with the result x of set_label
LabelSet(a, x) ==
    IF x.ok THEN LineDone([a EXCEPT !.symbols = x.sym])
    ELSE LineError([a EXCEPT !.symbols = x.sym], "already defined")

\* inner_process, SourceLine::Ins, with the result x of parse_ins
InsParsed(a, x) ==
    IF x.ok
    THEN LineDone(add_line([a EXCEPT !.symbols = x.sym], a.current_segment,
                           DataIns(x.opcode, x.dat_op), 1 + size(x.dat_op)))
    ELSE LineError(a, "operands")

\* inner_process, SourceLine::DirWide of a label, with the result x of
\* get_label
WideRead(a, x) ==
    LineDone(add_line([a EXCEPT !.symbols = x.sym], a.current_segment,
                      DataWide(Label(x.id)), 2))

\* inner_process: the loop body for the line numbered a.ln
inner_process(a, l) ==
    CASE l.line = "DirSeg" ->
             IF l.s \in {"data", "rodata", "text", "heap"}
             THEN LineDone([a EXCEPT !.current_segment = l.s])
             ELSE LineError(a, "unknown segment")
      [] l.line = "Label" ->
             LabelSet(a, set_label(a.symbols, l.s,
                                   <<a.current_segment, get_size(a, a.current_segment)>>,
                                   LinesHeld(a)))
      [] l.line = "DirEntry" ->
             IF a.entry # <<>> THEN LineError(a, "DoubleEntry")
             ELSE LineDone([a EXCEPT !.entry = <<<<a.current_segment,
                                                  get_size(a, a.current_segment),
                                                  LinesHeld(a)>>>>])
      [] l.line = "Ins" ->
             InsParsed(a, parse_ins(l.s, l.ops, a.symbols, SourceLocation(a.src, a.ln)))
      [] l.line = "DirByte" ->
             LineDone(add_line(a, a.current_segment, DataRaw(<<l.ops[1].v>>), 1))
      [] l.line = "DirWide" ->
             IF l.ops[1].kind = "Label"
             THEN WideRead(a, read_label(a.symbols, l.ops[1].l,
                                         SourceLocation(a.src, a.ln)))
             ELSE LineDone(add_line(a, a.current_segment, DataWide(Number(l.ops[1].v)), 2))
      [] l.line = "DirString" ->
             LineDone(add_line(a, a.current_segment,
                               DataRaw([i \in 1 .. Len(l.ops) |-> l.ops[i].v]), Len(l.ops)))
      [] l.line = "DirInclude" ->
             [a EXCEPT !.files = Append(@, [src |-> a.src, ln |-> a.ln,
                                            current_segment |-> a.current_segment]),
                       !.src = l.s, !.ln = 0, !.current_segment = "Unknown"]
      [] l.line = "DirGlobal" ->
             LineDone([a EXCEPT !.symbols =
                          set_global(read_label(a.symbols, l.s, SourceLocation(a.src, a.ln)).sym,
                                     read_label(a.symbols, l.s, SourceLocation(a.src, a.ln)).id)])
      [] l.line = "DirReference" ->
             LineDone([a EXCEPT !.symbols =
                          set_reference(read_label(a.symbols, l.s, SourceLocation(a.src, a.ln)).sym,
                                        read_label(a.symbols, l.s, SourceLocation(a.src, a.ln)).id)])
      [] l.line = "Comment" -> LineDone(a)

\* inner_process of an included file returned Ok: the loop body of the line
\* that included it ends
included(a) ==
    LineDone([a EXCEPT !.files = SubSeq(@, 1, Len(@) - 1),
                       !.src = a.files[Len(a.files)].src,
                       !.ln = a.files[Len(a.files)].ln,
                       !.current_segment = a.files[Len(a.files)].current_segment])

RECURSIVE Layout(_, _, _)
\* process: the start of every segment that has data lines, from the k-th
\* segment type on
Layout(dls, k, last_end) ==
    IF k > Len(SegmentTypes) THEN [st \in {} |-> 0]
    ELSE IF SegmentTypes[k] \notin DOMAIN dls THEN Layout(dls, k + 1, last_end)
    ELSE (SegmentTypes[k] :> Wrap(align(last_end, SEGMENT_ALIGNMENT), 16))
             @@ Layout(dls, k + 1,
                       Wrap(Wrap(align(last_end, SEGMENT_ALIGNMENT), 16)
                                + dls[SegmentTypes[k]].size, 16))

RECURSIVE LayoutOverflows(_, _, _)
\* process: whether a start or an end of that loop leaves 0 .. 0xFFFF
LayoutOverflows(dls, k, last_end) ==
    IF k > Len(SegmentTypes) THEN FALSE
    ELSE IF SegmentTypes[k] \notin DOMAIN dls THEN LayoutOverflows(dls, k + 1, last_end)
    ELSE \/ Overflows(align(last_end, SEGMENT_ALIGNMENT))
         \/ Overflows(align(last_end, SEGMENT_ALIGNMENT) + dls[SegmentTypes[k]].size)
         \/ LayoutOverflows(dls, k + 1,
                            align(last_end, SEGMENT_ALIGNMENT) + dls[SegmentTypes[k]].size)

\* process: the symbols at which the loop over the symbols returns an error:
\* internal and never defined, or declared as reference but defined
Undefined(sym) ==
    {i \in 1 .. Len(sym.id_to_pos) :
        ~sym.id_to_pos[i].defined /\ sym.id_to_pos[i].st = "Internal"}

ReferenceDefined(sym) ==
    {i \in 1 .. Len(sym.id_to_pos) :
        sym.id_to_pos[i].defined /\ sym.id_to_pos[i].st = "Reference"}

\* the first of them in the order of the loop
FirstFailing(sym) ==
    CHOOSE i \in Undefined(sym) \cup ReferenceDefined(sym) :
        \A j \in Undefined(sym) \cup ReferenceDefined(sym) : i <= j

\* the errors of the use sites e of label l, each chained in front of those
\* before it
Chain(l, e) ==
    [i \in 1 .. Len(e) |-> [src |-> e[Len(e) + 1 - i].source,
                            ln |-> e[Len(e) + 1 - i].line_number,
                            label |-> l, e |-> "never defined"]]

\* the error of a symbol declared as reference but defined
DefinedReference(l) ==
    <<[src |-> "<src>", ln |-> 0, label |-> l, e |-> "declared as reference but defined"]>>

\* process: the start of a segment, 0 for a segment without data lines
Offset(st, start) == IF st \in DOMAIN start THEN start[st] ELSE 0

\* process: the position of a defined label, the placeholder 0xfaff of a
\* global or reference that is not defined
Position(p, start) ==
    IF p.defined THEN Wrap(p.addr[2] + Offset(p.addr[1], start), 16) ELSE 64255

\* an element that keeps the declared visibility of a symbol never defined
Element_keeps_declared(l, p, start) ==
    IF p.defined THEN [l |-> l, st |-> p.st, stype |-> p.addr[1], pos |-> Position(p, start)]
    ELSE [l |-> l, st |-> p.st, stype |-> "Unknown", pos |-> Position(p, start)]

\* process: the element pushed to labels for a symbol
Element(l, p, start) ==
    IF p.defined THEN [l |-> l, st |-> p.st, stype |-> p.addr[1], pos |-> Position(p, start)]
    ELSE [l |-> l, st |-> "Reference", stype |-> "Unknown", pos |-> Position(p, start)]

RECURSIVE Emitted(_, _)
\* the second pass: the bytes the data lines give, labels read as positions
Emitted(lines, positions) ==
    IF lines = <<>> THEN <<>>
    ELSE (CASE Head(lines).line = "Raw" -> Head(lines).raw
            [] Head(lines).line = "Wide" ->
                   to_le_bytes(parse_wide(Head(lines).dat_op.w, positions))
            [] OTHER ->
                   write_data_operand(<<Opcode(Head(lines).opcode)>>, positions,
                                      Head(lines).dat_op))
         \o Emitted(Tail(lines), positions)

\* process after inner_process returned and the segments have their starts:
\* the labels or the error of the first failing symbol, the entry, then the
\* second pass
Processed(a, start) ==
    IF Undefined(a.symbols) \cup ReferenceDefined(a.symbols) # {}
    THEN [a EXCEPT !.phase = "done",
                   !.error = IF FirstFailing(a.symbols) \in Undefined(a.symbols)
                             THEN Chain(a.symbols.labels[FirstFailing(a.symbols)],
                                        a.symbols.id_to_pos[FirstFailing(a.symbols)].uses)
                             ELSE DefinedReference(a.symbols.labels[FirstFailing(a.symbols)])]
    ELSE [a EXCEPT !.phase = "done",
                   !.start = start,
                   !.labels = [i \in 1 .. Len(a.symbols.labels) |->
                                  Position(a.symbols.id_to_pos[i], start)],
                   !.symtab = [i \in 1 .. Len(a.symbols.labels) |->
                                  Element(a.symbols.labels[i], a.symbols.id_to_pos[i], start)],
                   !.entry_point = [i \in 1 .. Len(a.entry) |->
                                       Wrap(a.entry[i][2] + Offset(a.entry[i][1], start), 16)],
                   !.image = [st \in DOMAIN a.dls |->
                                 Emitted(a.dls[st].lines,
                                         [i \in 1 .. Len(a.symbols.labels) |->
                                             Position(a.symbols.id_to_pos[i], start)])]]

process(a) ==
    IF a.checks /\ LayoutOverflows(a.dls, 1, SEGMENT_ALIGNMENT) THEN Aborted(a)
    ELSE Processed(a, Layout(a.dls, 1, SEGMENT_ALIGNMENT))

\* label names
LabelNames == {"a", "b"}

\* the source lines the assembler is given
SourceLineSamples ==
    {DirSeg("text"), DirSeg("data"), DirByte(7), DirString(<<104, 105, 0>>),
     DirWide(SourceOperand("Wide", 4660)),
     SrcIns("nop", <<>>),
     SrcIns("add", <<SourceOperand("WideReg", 1), SourceOperand("WideReg", 2),
                     SourceOperand("WideReg", 3)>>),
     SrcIns("load", <<SourceOperand("ByteReg", 1), SourceOperand("WideReg", 2),
                      SourceOperand("Number", 4)>>),
     SrcIns("store", <<SourceOperand("WideReg", 1), SourceOperand("Number", 4),
                       SourceOperand("ByteReg", 3)>>)}
    \cup {SrcLabel(l) : l \in LabelNames}
    \cup {DirWide(SourceLabel(l)) : l \in LabelNames}
    \cup {SrcIns("jmp", <<SourceLabel(l)>>) : l \in LabelNames}
    \cup {SrcIns("ldi", <<SourceOperand("WideReg", 1), SourceLabel(l)>>) :
             l \in LabelNames}
    \cup {SrcIns("store", <<SourceOperand("WideReg", 1), SourceLabel(l),
                            SourceOperand("WideReg", 2)>>) : l \in LabelNames}

InitProcess ==
    /\ cpu = CpuWith(1, 2, FALSE, FALSE, FALSE, FALSE, 256)
    /\ mem = <<>>
    /\ res = "Ok"
    /\ pre = [cpu |-> cpu, mem |-> <<>>]
    /\ ins = <<>>
    /\ nfetch = 0
    /\ hist = <<>>
    /\ steps = 0
    /\ asm = NewProcess
    /\ std = <<>>

\* the next source line is read
ReadLine ==
    /\ asm.phase = "lines"
    /\ Len(asm.source) < MaxLines
    /\ \E l \in SourceLineSamples :
           asm' = inner_process([asm EXCEPT !.ln = @ + 1,
                                            !.source = Append(@, l),
                                            !.read = Append(@, SourceLocation(asm.src,
                                                                              asm.ln + 1))],
                                l)
    /\ UNCHANGED <<machine, std>>

\* an included file ends
EndOfInclude ==
    /\ asm.phase = "lines"
    /\ asm.files # <<>>
    /\ asm' = included(asm)
    /\ UNCHANGED <<machine, std>>

\* the source ends
EndOfSource ==
    /\ asm.phase = "lines"
    /\ asm.files = <<>>
    /\ asm' = process(asm)
    /\ UNCHANGED <<machine, std>>

NextProcess ==
    \/ ReadLine
    \/ EndOfSource

SpecProcess == InitProcess /\ [][NextProcess]_vars

\* how many source lines are read when directives are among them
MaxDirectives == 4

\* how deep files include files
MaxIncludes == 1

\* source lines with the directives for the entry, for symbols and for
\* included files
DirectiveSamples ==
    {DirSeg("text"), DirSeg("data"), DirEntry, DirByte(7), Comment,
     SrcLabel("a"), DirGlobal("a"), DirGlobal("b"), DirReference("a"), DirInclude("inc"),
     SrcIns("jmp", <<SourceLabel("a")>>),
     SrcIns("store", <<SourceOperand("WideReg", 1), SourceOperand("Number", 4),
                       SourceOperand("ByteReg", 3)>>)}

\* the next line of the file being read
ReadDirective ==
    /\ asm.phase = "lines"
    /\ Len(asm.source) < MaxDirectives
    /\ \E l \in DirectiveSamples :
           /\ l.line = "DirInclude" => Len(asm.files) < MaxIncludes
           /\ asm' = inner_process([asm EXCEPT !.ln = @ + 1,
                                              !.source = Append(@, l),
                                              !.read = Append(@, SourceLocation(asm.src,
                                                                                asm.ln + 1))],
                                   l)
    /\ UNCHANGED <<machine, std>>

NextDirectives ==
    \/ ReadDirective
    \/ EndOfInclude
    \/ EndOfSource

SpecDirectives == InitProcess /\ [][NextDirectives]_vars

\* source lines that fill the address space: a string of 0x7FFC bytes
LayoutSamples ==
    {DirSeg("text"), DirSeg("data"), DirByte(7), SrcLabel("a"),
     DirString([i \in 1 .. 32764 |-> 65])}

\* the build checks u16 overflow, or it does not
InitLayout ==
    /\ cpu = CpuWith(1, 2, FALSE, FALSE, FALSE, FALSE, 256)
    /\ mem = <<>>
    /\ res = "Ok"
    /\ pre = [cpu |-> cpu, mem |-> <<>>]
    /\ ins = <<>>
    /\ nfetch = 0
    /\ hist = <<>>
    /\ steps = 0
    /\ \E checks \in BOOLEAN : asm = [NewProcess EXCEPT !.checks = checks]
    /\ std = <<>>

ReadLayout ==
    /\ asm.phase = "lines"
    /\ Len(asm.source) < MaxLines
    /\ \E l \in LayoutSamples :
           asm' = inner_process([asm EXCEPT !.ln = @ + 1,
                                            !.source = Append(@, l),
                                            !.read = Append(@, SourceLocation(asm.src,
                                                                              asm.ln + 1))],
                                l)
    /\ UNCHANGED <<machine, std>>

NextLayout ==
    \/ ReadLayout
    \/ EndOfSource

SpecLayout == InitLayout /\ [][NextLayout]_vars

(***************************************************************************)
(* The StandardCpu machine.  Its cpu is built from the first cells of the  *)
(* memory, and every call of run executes the instruction at pc.  The      *)
(* program and the stack live in the same memory.  The register that run   *)
(* calls work is the one the constructor fills as accumulator.             *)
(***************************************************************************)
\* instructions executed in a run of the StandardCpu specification
MaxRuns == 4

INVALID == 0

NOP == 15

PUSH == 32

POP == 33

CALL == 34

RET == 35

HALT == 112

\* Memory::read: the cell at an index
Cell(m, a) == IF a \in DOMAIN m THEN m[a] ELSE 0

\* Memory::write
Store(m, a, b) == (a :> b) @@ m

\* Memory::read_index: the index held by the two cells at i and i + 1
read_index(m, i) == Cell(m, i) + 256 * Cell(m, Wrap(i + 1, 16))

\* Memory::write_index
write_index(m, i, v) == Store(Store(m, i, v % 256), Wrap(i + 1, 16), v \div 256)

\* StandardCpu::new
StandardCpu_new(m) ==
    [pc |-> read_index(m, 0),
     stack_pointer |-> read_index(m, 2),
     base_pointer |-> read_index(m, 4),
     counter |-> read_index(m, 6),
     work |-> Cell(m, 7),
     flags |-> Cell(m, 8)]

\* what run returns: no signal, the PowerOff signal, or a panic of the host
Ran16(c, m, signal) == [cpu |-> c, memory |-> m, signal |-> signal]

\* StandardCpu::read_arg_index
read_arg_index(c, m, indirection) ==
    [v |-> IF indirection THEN read_index(m, read_index(m, c.pc)) ELSE read_index(m, c.pc),
     pc |-> c.pc + 2]

\* the PUSH arm of run
run_PUSH(c, m, checks) ==
    LET written == Store(m, c.stack_pointer, c.work)
        sp == c.stack_pointer - 1
    IN IF checks /\ Overflows(sp) THEN Ran16(c, written, "Panic")
       ELSE Ran16([c EXCEPT !.stack_pointer = Wrap(sp, 16)], written, "None")

\* the POP arm of run
run_POP(c, m, checks) ==
    LET sp == c.stack_pointer + 1
    IN IF checks /\ Overflows(sp) THEN Ran16(c, m, "Panic")
       ELSE Ran16([c EXCEPT !.stack_pointer = Wrap(sp, 16),
                            !.work = Cell(m, Wrap(sp, 16))], m, "None")

\* the RET arm of run
run_RET(c, m, checks) ==
    LET sp == c.stack_pointer + 2
        at == Wrap(sp, 16) + 1
    IN IF checks /\ (Overflows(sp) \/ Overflows(at)) THEN Ran16(c, m, "Panic")
       ELSE Ran16([c EXCEPT !.stack_pointer = Wrap(sp, 16),
                            !.pc = read_index(m, Wrap(at, 16))], m, "None")

\* the CALL arm of run
run_CALL(c, m, indirection, checks) ==
    LET a == read_arg_index(c, m, indirection)
        at == c.stack_pointer - 1
        sp == c.stack_pointer - 2
    IN IF checks /\ (Overflows(a.pc) \/ Overflows(at)) THEN Ran16(c, m, "Panic")
       ELSE LET written == write_index(m, Wrap(at, 16), Wrap(a.pc, 16))
            IN IF checks /\ Overflows(sp) THEN Ran16(c, written, "Panic")
               ELSE Ran16([c EXCEPT !.stack_pointer = Wrap(sp, 16), !.pc = a.v],
                          written, "None")

\* the opcodes whose arms are modelled
Arms == {INVALID, NOP, PUSH, POP, CALL, RET, HALT}

\* StandardCpu::run
run(c0, m, checks) ==
    LET cur_ins == Cell(m, c0.pc)
        c == [c0 EXCEPT !.pc = Wrap(@ + 1, 16)]
        indirection == cur_ins >= 128
        op == cur_ins % 128
    IN IF checks /\ Overflows(c0.pc + 1) THEN Ran16(c0, m, "Panic")
       ELSE CASE op = NOP     -> Ran16(c, m, "None")
              [] op = INVALID -> Ran16(c, m, "Panic")
              [] op = PUSH    -> run_PUSH(c, m, checks)
              [] op = POP     -> run_POP(c, m, checks)
              [] op = RET     -> run_RET(c, m, checks)
              [] op = CALL    -> run_CALL(c, m, indirection, checks)
              [] op = HALT    -> Ran16(c, m, "PowerOff")

\* the cells from address a on hold the bytes bs
Placed16(a, bs) == [i \in a .. a + Len(bs) - 1 |-> bs[i - a + 1]]

\* a memory image: the cpu's first cells with pc = 16, a main program at 16,
\* a subroutine at 48, and the subroutine's address in the cells at 64
Image(sp, work, main, sub) ==
    Placed16(0, <<16, 0, sp % 256, sp \div 256, 0, 0, 0, work, 0>>)
        @@ Placed16(16, main) @@ Placed16(48, sub) @@ Placed16(64, <<48, 0>>)

\* main programs and subroutines: PUSH POP; PUSH PUSH POP POP; POP PUSH;
\* CALL of a subroutine, by its address or through the cells that hold it
Programs ==
    {<<<<PUSH, POP, HALT>>, <<RET>>>>,
     <<<<PUSH, PUSH, POP, POP, HALT>>, <<RET>>>>,
     <<<<NOP, POP, PUSH, HALT>>, <<RET>>>>,
     <<<<CALL, 48, 0, HALT>>, <<RET>>>>,
     <<<<CALL, 48, 0, HALT>>, <<PUSH, POP, RET>>>>,
     <<<<CALL + 128, 64, 0, HALT>>, <<NOP, RET>>>>,
     <<<<PUSH, CALL, 48, 0, POP, HALT>>, <<RET>>>>}

InitStandard ==
    /\ cpu = CpuWith(1, 2, FALSE, FALSE, FALSE, FALSE, 256)
    /\ mem = <<>>
    /\ res = "Ok"
    /\ pre = [cpu |-> cpu, mem |-> <<>>]
    /\ ins = <<>>
    /\ nfetch = 0
    /\ hist = <<>>
    /\ steps = 0
    /\ asm = <<>>
    /\ \E sp \in StackSamples, work \in {1, 128, 255}, p \in Programs, checks \in BOOLEAN :
          LET m == Image(sp, work, p[1], p[2])
          IN std = [cpu |-> StandardCpu_new(m), memory |-> m, signal |-> "None",
                    checks |-> checks, hist |-> <<>>]

\* Machine::run calls StandardCpu::run until it returns a signal
Run16 ==
    /\ DOMAIN std # {}
    /\ std.signal = "None"
    /\ Len(std.hist) < MaxRuns
    /\ Cell(std.memory, std.cpu.pc) % 128 \in Arms
    /\ \E out \in {run(std.cpu, std.memory, std.checks)} :
          std' = [std EXCEPT !.cpu = out.cpu,
                             !.memory = out.memory,
                             !.signal = out.signal,
                             !.hist = Append(@, [cpu |-> std.cpu, memory |-> std.memory,
                                                 op |-> Cell(std.memory, std.cpu.pc) % 128])]
    /\ UNCHANGED <<machine, asm>>

NextStandard == Run16

SpecStandard == InitStandard /\ [][NextStandard]_vars

\* the Blf4 machine in supervisor mode, paging on or off
InitPushPop ==
    \E v1 \in Vals(NCtlVals), v2 \in Vals(NCtlVals), vm \in BOOLEAN, sp \in StackSamples :
        InitWith(CpuWith(v1, v2, FALSE, FALSE, FALSE, vm, sp))

\* either machine, running pushes and pops
InitStack == InitPushPop \/ InitStandard

StepPushPop ==
    /\ DOMAIN std = {}
    /\ StepStack(2)

NextStack ==
    \/ StepPushPop
    \/ Run16

SpecStack == InitStack /\ [][NextStack]_vars

(***************************************************************************)
(* What the last instruction was, and where it was.                        *)
(***************************************************************************)
\* the last instruction's opcode is one of the named ones
Ran(names) == ins # <<>> /\ ins[1] \in Ops(names)

\* the address k bytes after the last instruction's opcode byte
PcAfter(k) == Wrap(pre.cpu.program_counter + k, 16)

\* the cpu the last instruction started on, with the program counter moved
\* past the k bytes of the instruction
PreCpuAfter(k) == [pre.cpu EXCEPT !.program_counter = PcAfter(k)]

Privileged == {"USR", "VMON", "VMOFF", "PSTORE", "PLOAD"}

(***************************************************************************)
(* C1: each of USR, VMON, VMOFF, PSTORE and PLOAD, run with user_mode set, *)
(* returns the trap IllegalOperation, and its handler has changed no       *)
(* register, no flag or mode bit and no memory byte and has fetched no     *)
(* operand byte: the program counter stands right after the opcode byte.   *)
(***************************************************************************)
C1_PrivilegedInUserMode ==
    (Ran(Privileged) /\ pre.cpu.flags.user_mode) =>
        /\ res = "IllegalOperation"
        /\ nfetch = 0
        /\ cpu = PreCpuAfter(1)
        /\ mem = pre.mem

\* PSTORE with registers named in its operand bytes, in user mode
C1_Witness ==
    /\ Ran({"PSTORE"})
    /\ pre.cpu.flags.user_mode
    /\ ins[2] # 0
    /\ res = "IllegalOperation"

(***************************************************************************)
(* C2: an opcode byte that no instruction is assigned to, and the NULL     *)
(* opcode, run a handler that returns the trap Invalid, fetches no operand *)
(* and changes no register, flag or memory byte; an assigned opcode runs   *)
(* the handler assigned to it, which is not the default handler and is not *)
(* the handler of any other opcode.                                        *)
(***************************************************************************)
C2_DispatchTable ==
    /\ (ins # <<>> /\ ins[1] \in (Bytes \ Assigned) \cup Ops({"NULL"})) =>
           /\ res = "Invalid"
           /\ nfetch = 0
           /\ cpu = PreCpuAfter(1)
           /\ mem = pre.mem
    /\ (ins # <<>> /\ ins[1] \in Assigned \ Ops({"NULL"})) =>
           /\ <<OpNames[ins[1] + 1], OP_HANDLERS[ins[1]]>> \in
                  {Assignments[i] : i \in 1 .. Len(Assignments)}
           /\ OP_HANDLERS[ins[1]] # DefaultHandler
           /\ \A b \in Assigned \ {ins[1]} : OP_HANDLERS[b] # OP_HANDLERS[ins[1]]

\* the last byte of the table, which no instruction is assigned to
C2_Witness ==
    /\ ins # <<>>
    /\ ins[1] = 255
    /\ ins[1] \notin Assigned
    /\ res = "Invalid"
    /\ pre.cpu.flags.carry

(***************************************************************************)
(* C3: whatever the opcode byte and the state, the handler returns Ok or a *)
(* trap: no shift amount, stack pointer or base + offset sum makes it      *)
(* abort the host.                                                         *)
(***************************************************************************)
C3_NoHostAbort == res \in {"Ok"} \cup TrapModes

(***************************************************************************)
(* The operands of the last instruction, for the three- and four-register  *)
(* instructions.                                                           *)
(***************************************************************************)
\* nibble k (1..4) of the two operand bytes
Nib(k) == paired(ins[2 + (k - 1) \div 2])[2 - (k % 2)]

\* the operand width of the last instruction
LastWidth == IF ins[1] \in ByteBinops \cup Ops({"MUL_B", "DIV_B"}) THEN 8 ELSE 16

\* the value register r of that width had before, and has after, the instruction
RegBefore(r) ==
    IF LastWidth = 8 THEN read_br([cpu |-> pre.cpu], r) ELSE read_wr([cpu |-> pre.cpu], r)

RegAfter(r) ==
    IF LastWidth = 8 THEN read_br([cpu |-> cpu], r) ELSE read_wr([cpu |-> cpu], r)

\* the number a w-bit pattern stands for in two's complement
SignedValue(x, w) == IF x >= Pow2(w - 1) THEN x - Pow2(w) ELSE x

AddSub == {"ADD_B", "ADD_W", "SUB_B", "SUB_W"}

\* the sum or difference of the operand values of the last ADD or SUB,
\* unsigned and signed, before any reduction
AddSubExact ==
    IF Ran({"ADD_B", "ADD_W"}) THEN RegBefore(Nib(2)) + RegBefore(Nib(3))
    ELSE RegBefore(Nib(2)) - RegBefore(Nib(3))

AddSubSignedExact ==
    IF Ran({"ADD_B", "ADD_W"})
    THEN SignedValue(RegBefore(Nib(2)), LastWidth) + SignedValue(RegBefore(Nib(3)), LastWidth)
    ELSE SignedValue(RegBefore(Nib(2)), LastWidth) - SignedValue(RegBefore(Nib(3)), LastWidth)

\* (a + b) mod 2^w, resp. (a - b) mod 2^w
AddSubResult == (AddSubExact + Pow2(LastWidth)) % Pow2(LastWidth)

\* the flag laws of ADD and SUB
AddSubFlagLaws ==
    /\ cpu.flags.zero = (AddSubResult = 0)
    /\ cpu.flags.carry = (AddSubExact >= Pow2(LastWidth) \/ AddSubExact < 0)
    /\ cpu.flags.overflow = (\/ AddSubSignedExact < -Pow2(LastWidth - 1)
                             \/ AddSubSignedExact > Pow2(LastWidth - 1) - 1)
    /\ cpu.flags.sign = (AddSubResult >= Pow2(LastWidth - 1))

(***************************************************************************)
(* C4, as stated: after ADD or SUB of the operand values a and b, in       *)
(* either width w, the destination holds (a + b) mod 2^w, resp.            *)
(* (a - b) mod 2^w, zero is set iff that result is 0, carry iff the        *)
(* unsigned operation overflows, overflow iff the signed operation leaves  *)
(* the signed range, sign iff the result's most significant bit is 1.      *)
(***************************************************************************)
C4_AsStated ==
    (Ran(AddSub) /\ Nib(4) = 0 /\ res = "Ok") =>
        /\ RegAfter(Nib(1)) = AddSubResult
        /\ AddSubFlagLaws

(***************************************************************************)
(* C4, amended: after ADD or SUB of the operand values a and b, in either  *)
(* width, the four flags are as stated, and a destination that is not the  *)
(* zero register holds (a + b) mod 2^w, resp. (a - b) mod 2^w.             *)
(***************************************************************************)
C4_AddSub ==
    (Ran(AddSub) /\ Nib(4) = 0) =>
        /\ AddSubFlagLaws
        /\ Nib(1) # R0 => (res = "Ok" /\ RegAfter(Nib(1)) = AddSubResult)

\* 0x80 + 0x80 in a byte: the result is 0, with carry and signed overflow
C4_Witness ==
    /\ Ran({"ADD_B"})
    /\ res = "Ok"
    /\ Nib(1) # R0
    /\ RegBefore(Nib(2)) = 128
    /\ RegBefore(Nib(3)) = 128
    /\ RegAfter(Nib(1)) = 0
    /\ cpu.flags.carry /\ cpu.flags.overflow /\ cpu.flags.zero /\ ~cpu.flags.sign

(***************************************************************************)
(* C6: MUL with destinations r1 # r2, neither the zero register, leaves    *)
(* the upper half of the double-width product of the values of r3 and r4   *)
(* in r1 and the lower half in r2, sets carry and overflow iff the upper   *)
(* half is not 0, and takes sign and zero from the lower half.             *)
(***************************************************************************)
\* the sum of two double-width numbers <<upper, lower>>, modulo 2^(2w)
PairAdd(p, q, w) ==
    <<(p[1] + q[1] + (p[2] + q[2]) \div Pow2(w)) % Pow2(w), (p[2] + q[2]) % Pow2(w)>>

RECURSIVE Product(_, _, _)
\* a * b as a double-width number <<upper, lower>>, by doubling and adding
Product(a, b, w) ==
    IF b = 0 THEN <<0, 0>>
    ELSE LET half == Product(a, b \div 2, w)
             dbl == PairAdd(half, half, w)
         IN IF b % 2 = 1 THEN PairAdd(dbl, <<0, a>>, w) ELSE dbl

MulLaws(p) ==
    /\ res = "Ok"
    /\ RegAfter(Nib(1)) = p[1]
    /\ RegAfter(Nib(2)) = p[2]
    /\ LastWidth = 8 => RegAfter(Nib(1)) * 256 + RegAfter(Nib(2)) = RegBefore(Nib(3)) * RegBefore(Nib(4))
    /\ cpu.flags.carry = (p[1] # 0)
    /\ cpu.flags.overflow = (p[1] # 0)
    /\ cpu.flags.zero = (p[2] = 0)
    /\ cpu.flags.sign = (p[2] >= Pow2(LastWidth - 1))

C6_Mul ==
    (Ran({"MUL_B", "MUL_W"}) /\ Nib(1) # Nib(2) /\ Nib(1) # R0 /\ Nib(2) # R0) =>
        MulLaws(Product(RegBefore(Nib(3)), RegBefore(Nib(4)), LastWidth))

\* 0xFFFF * 0xFFFF = 0xFFFE0001
C6_Witness ==
    /\ Ran({"MUL_W"})
    /\ Nib(1) # Nib(2) /\ Nib(1) # R0 /\ Nib(2) # R0
    /\ RegBefore(Nib(3)) = 65535
    /\ RegBefore(Nib(4)) = 65535
    /\ RegAfter(Nib(1)) = 65534
    /\ RegAfter(Nib(2)) = 1
    /\ cpu.flags.carry

(***************************************************************************)
(* C7, as stated: DIV with a divisor value of 0 returns ZeroDiv and leaves *)
(* r1, r2, every other register, the four flags and memory unchanged; with *)
(* a divisor that is not 0 and r1 # r2, r1 holds the unsigned quotient and *)
(* r2 the unsigned remainder: r1 * r4 + r2 = r3 and r2 < r4 for the values *)
(* of r3 and r4 read before the instruction.                               *)
(***************************************************************************)
DivByZeroLaw ==
    (Ran({"DIV_B", "DIV_W"}) /\ RegBefore(Nib(4)) = 0) =>
        /\ res = "ZeroDiv"
        /\ cpu = PreCpuAfter(3)
        /\ mem = pre.mem

QuotientLaw ==
    /\ RegAfter(Nib(1)) * RegBefore(Nib(4)) + RegAfter(Nib(2)) = RegBefore(Nib(3))
    /\ RegAfter(Nib(2)) < RegBefore(Nib(4))

C7_AsStated ==
    /\ DivByZeroLaw
    /\ (Ran({"DIV_B", "DIV_W"}) /\ RegBefore(Nib(4)) # 0 /\ Nib(1) # Nib(2) /\ res = "Ok") =>
           QuotientLaw

(***************************************************************************)
(* C7, amended: as stated, the quotient and the remainder being held by r1 *)
(* and r2 when r1 # r2 and neither is the zero register.                   *)
(***************************************************************************)
C7_Div ==
    /\ DivByZeroLaw
    /\ (/\ Ran({"DIV_B", "DIV_W"}) /\ RegBefore(Nib(4)) # 0
        /\ Nib(1) # Nib(2) /\ Nib(1) # R0 /\ Nib(2) # R0) =>
           (res = "Ok" /\ QuotientLaw)

\* 0xFFFF / 0x0108 = 248, remainder 63
C7_Witness ==
    /\ Ran({"DIV_W"})
    /\ res = "Ok"
    /\ Nib(1) # Nib(2) /\ Nib(1) # R0 /\ Nib(2) # R0
    /\ RegBefore(Nib(3)) = 65535
    /\ RegBefore(Nib(4)) = 264
    /\ RegAfter(Nib(1)) = 248
    /\ RegAfter(Nib(2)) = 63

\* DIV by a register that holds 0, the flags set before it
C7_WitnessZeroDiv ==
    /\ Ran({"DIV_B"})
    /\ Nib(4) # R0
    /\ RegBefore(Nib(4)) = 0
    /\ RegBefore(Nib(3)) # 0
    /\ pre.cpu.flags.carry
    /\ res = "ZeroDiv"

(***************************************************************************)
(* C5: after AND, OR, XOR, SHL, ASR or LSR, in either width and for all    *)
(* operand values, carry and overflow are clear, zero is set iff the value *)
(* written to the destination is 0 and sign iff that value's most          *)
(* significant bit is 1.  The value written is read back from a            *)
(* destination that is not the zero register.                              *)
(***************************************************************************)
Logic == {"AND_B", "AND_W", "OR_B", "OR_W", "XOR_B", "XOR_W",
          "SHL_B", "SHL_W", "ASR_B", "ASR_W", "LSR_B", "LSR_W"}

C5_LogicFlags ==
    (Ran(Logic) /\ Nib(4) = 0 /\ Nib(1) # R0) =>
        /\ res = "Ok"
        /\ ~cpu.flags.carry
        /\ ~cpu.flags.overflow
        /\ cpu.flags.zero = (RegAfter(Nib(1)) = 0)
        /\ cpu.flags.sign = (RegAfter(Nib(1)) >= Pow2(LastWidth - 1))

(***************************************************************************)
(* C8: CALL imm at address p sets link to p + 3 and the program counter to *)
(* imm and touches neither the stack pointer nor memory; RET n sets the    *)
(* program counter to link and the stack pointer to SP + n mod 2^16; so    *)
(* after two CALLs, RET returns to the instruction after the second CALL.  *)
(***************************************************************************)
\* the k-th instruction before the last one ran the named opcode
RanBefore(k, name) ==
    /\ Len(hist) > k
    /\ hist[Len(hist) - k].ins[1] = Opcode(name)

C8_CallRet ==
    /\ Ran({"CALL"}) =>
           /\ res = "Ok"
           /\ cpu.link = PcAfter(3)
           /\ cpu.program_counter = ins[2] + 256 * ins[3]
           /\ cpu.stack = pre.cpu.stack
           /\ mem = pre.mem
    /\ Ran({"RET"}) =>
           /\ res = "Ok"
           /\ cpu.program_counter = pre.cpu.link
           /\ cpu.stack = (pre.cpu.stack + ins[2]) % Pow2(16)
    /\ (RanBefore(0, "RET") /\ RanBefore(1, "CALL") /\ RanBefore(2, "CALL")) =>
           /\ res = "Ok"
           /\ cpu.program_counter = Wrap(hist[Len(hist) - 1].cpu.program_counter + 3, 16)

(***************************************************************************)
(* C9: after SUB a, b of either width, each conditional jump goes to its   *)
(* 16-bit target exactly when its condition holds of (a, b): JEZ a = b,    *)
(* JNZ a # b; signed JLT a < b, JLE a <= b, JGT a > b, JGE a >= b;         *)
(* unsigned JB a < b, JBE a <= b, JA a > b, JAE a >= b; JO the subtraction *)
(* overflowed signed, JNO it did not.  Otherwise execution goes on at the  *)
(* instruction after the 3-byte jump.                                      *)
(***************************************************************************)
\* the width of the SUB a run starts with
SubWidth == IF hist[1].ins[1] = Opcode("SUB_B") THEN 8 ELSE 16

\* the value of operand k (2 for a, 3 for b) of that SUB, read before it
SubOperand(k) ==
    LET r == paired(hist[1].ins[2 + (k - 1) \div 2])[2 - (k % 2)]
    IN IF SubWidth = 8 THEN read_br([cpu |-> hist[1].cpu], r)
       ELSE read_wr([cpu |-> hist[1].cpu], r)

\* the condition of the jump, of the unsigned values a and b of width w
JumpCondition(name, a, b, w) ==
    LET sa == SignedValue(a, w)
        sb == SignedValue(b, w)
    IN CASE name = "JEZ" -> a = b
         [] name = "JNZ" -> a # b
         [] name = "JLT" -> sa < sb
         [] name = "JLE" -> sa <= sb
         [] name = "JGT" -> sa > sb
         [] name = "JGE" -> sa >= sb
         [] name = "JB"  -> a < b
         [] name = "JBE" -> a <= b
         [] name = "JA"  -> a > b
         [] name = "JAE" -> a >= b
         [] name = "JO"  -> sa - sb < -Pow2(w - 1) \/ sa - sb > Pow2(w - 1) - 1
         [] name = "JNO" -> ~(sa - sb < -Pow2(w - 1) \/ sa - sb > Pow2(w - 1) - 1)

C9_JumpsAfterSub ==
    (Len(hist) = 2 /\ hist[1].ins[1] \in Ops({"SUB_B", "SUB_W"}) /\ ins[1] \in Jumps) =>
        /\ res = "Ok"
        /\ cpu.program_counter =
               IF JumpCondition(OpNames[ins[1] + 1], SubOperand(2), SubOperand(3), SubWidth)
               THEN ins[2] + 256 * ins[3]
               ELSE PcAfter(3)

(***************************************************************************)
(* C10: LDI_W with the operand byte (reg, variant) and a little-endian     *)
(* imm16.  Variant 0 writes imm16 to reg (a write that the zero register   *)
(* does not keep) and leaves the program counter 4 bytes after the opcode  *)
(* address; variant 1 sets the program counter to imm16 when reg is the    *)
(* zero selector and to the value of reg otherwise, and modifies no        *)
(* register; a variant in 2..15 returns Invalid and modifies no register.  *)
(***************************************************************************)
LdiImm == ins[3] + 256 * ins[4]

\* the wide registers other than r read the same before and after, the
\* program counter aside
OtherWidesKept(r) ==
    \A q \in (0 .. 15) \ {r, RP} : read_wr([cpu |-> cpu], q) = read_wr([cpu |-> pre.cpu], q)

ZeroSecond == {"PUSH_B", "PUSH_W", "POP_B", "POP_W", "LDI_B"}

ZeroFourth == AddSub \cup Logic \cup
              {"STORE_BR", "STORE_WR", "LOAD_BR", "LOAD_WR", "PSTORE", "PLOAD"}

\* the last instruction has a zero nibble that is not 0
BadZeroNibble ==
    \/ Ran(ZeroSecond) /\ Nib(2) # 0
    \/ Ran(ZeroFourth) /\ Nib(4) # 0

\* Invalid, and nothing but the program counter has moved: it stands after
\* the operand bytes decoded up to the zero nibble
RejectedUnchanged ==
    /\ res = "Invalid"
    /\ cpu = PreCpuAfter(IF Ran(ZeroSecond) THEN 2 ELSE 3)
    /\ mem = pre.mem

C11_AsStated == BadZeroNibble => RejectedUnchanged

(***************************************************************************)
(* C11, amended: as stated, PSTORE and PLOAD being run in supervisor mode  *)
(* (in user mode they return IllegalOperation whatever their operands).    *)
(***************************************************************************)
C11_ZeroNibble ==
    (BadZeroNibble /\ ~(Ran({"PSTORE", "PLOAD"}) /\ pre.cpu.flags.user_mode)) =>
        RejectedUnchanged

\* POP_B of a register, with the zero nibble 1
C11_Witness ==
    /\ Ran({"POP_B"})
    /\ Nib(1) # R0
    /\ Nib(2) = 1
    /\ res = "Invalid"
    /\ cpu.stack = pre.cpu.stack

(***************************************************************************)
(* C12: every LOAD and STORE accesses memory at the effective address      *)
(* (base register value + offset) mod 2^16, for all base and offset        *)
(* values, those whose sum is 2^16 or more included.                       *)
(***************************************************************************)
Stores == {"STORE_BI", "STORE_WI", "STORE_BR", "STORE_WR"}

Loads == {"LOAD_BI", "LOAD_WI", "LOAD_BR", "LOAD_WR"}

\* the cpu before the last instruction, as a context to read registers from
Before == [cpu |-> pre.cpu]

After == [cpu |-> cpu]

\* the value of the base register and the offset of the last load or store
BaseValue == read_wr(Before, IF Ran(Stores) THEN Nib(1) ELSE Nib(2))

OffsetValue ==
    CASE Ran({"STORE_BI", "STORE_WI", "LOAD_BI", "LOAD_WI"}) -> ins[3] + 256 * ins[4]
      [] Ran({"STORE_BR", "STORE_WR"}) -> read_wr(Before, Nib(2))
      [] OTHER -> read_wr(Before, Nib(3))

EffectiveAddress == (BaseValue + OffsetValue) % Pow2(16)

\* the physical byte the effective address a stands for
PhysAt(a) == Translate(Before, a % Pow2(16))

\* the byte or word in memory before the instruction, at effective address a
ByteAt(a) == PhysBytes(pre.mem, PhysAt(a))

WordAt(a) == ByteAt(a) + 256 * ByteAt(a + 1)

\* the value the last store stores
StoredValue ==
    CASE Ran({"STORE_BI"}) -> read_br(Before, Nib(2))
      [] Ran({"STORE_WI"}) -> read_wr(Before, Nib(2))
      [] Ran({"STORE_BR"}) -> read_br(Before, Nib(3))
      [] OTHER -> read_wr(Before, Nib(3))

C12_EffectiveAddress ==
    /\ Ran({"STORE_BI", "STORE_BR"}) =>
           /\ res = "Ok"
           /\ mem = (PhysAt(EffectiveAddress) :> StoredValue) @@ pre.mem
    /\ Ran({"STORE_WI", "STORE_WR"}) =>
           /\ res = "Ok"
           /\ mem = (PhysAt(EffectiveAddress + 1) :> StoredValue \div 256) @@
                    ((PhysAt(EffectiveAddress) :> StoredValue % 256) @@ pre.mem)
    /\ (Ran({"LOAD_BI", "LOAD_BR"}) /\ Nib(1) # R0) =>
           /\ res = "Ok"
           /\ read_br(After, Nib(1)) = ByteAt(EffectiveAddress)
    /\ (Ran({"LOAD_WI", "LOAD_WR"}) /\ Nib(1) # R0) =>
           /\ res = "Ok"
           /\ read_wr(After, Nib(1)) = WordAt(EffectiveAddress)


\* the last step was the RETH of a handler the trap engine entered
HandlerReturn ==
    /\ Len(hist) = 3
    /\ hist[2].ins = <<TrapEntry>>
    /\ Ran({"RETH"})

\* the cpu as the trap engine found it when it entered the handler
AtEntry == hist[2].cpu

\* the register set saved at trap entry is back: general registers, link,
\* the program counter and every flag but trap
SavedSetRestored ==
    /\ cpu.registers = AtEntry.registers
    /\ cpu.link = AtEntry.link
    /\ cpu.program_counter = AtEntry.program_counter
    /\ \A i \in 1 .. Len(FlagNames) :
           FlagNames[i] # "trap" => cpu.flags[FlagNames[i]] = AtEntry.flags[FlagNames[i]]

\* RETH outside a handler: IllegalHandlerReturn, nothing changed
RethOutsideHandler ==
    Ran({"RETH"}) /\ ~pre.cpu.flags.trap =>
        /\ res = "IllegalHandlerReturn"
        /\ cpu = PreCpuAfter(1)
        /\ mem = pre.mem

BeforeFault == hist[1].cpu

\* C14: for any trap that enters a handler whose only instruction is RETH,
\* the general registers, condition flags, user_mode, virtual_mode, link and
\* stack pointer after RETH equal those immediately before the faulting
\* instruction, and the trap flag is false again.
C14_TrapSymmetry ==
    HandlerReturn /\ res = "Ok" =>
        /\ cpu.registers = BeforeFault.registers
        /\ \A i \in 1 .. Len(FlagNames) :
               FlagNames[i] # "trap" => cpu.flags[FlagNames[i]] = BeforeFault.flags[FlagNames[i]]
        /\ cpu.link = BeforeFault.link
        /\ cpu.stack = BeforeFault.stack
        /\ ~cpu.flags.trap


\* C15: CTF is usable only from supervisor code: with user_mode = false it
\* sets trap = false and changes nothing else (registers, the other flags,
\* stack pointer, link, memory); with user_mode = true it does not clear the
\* trap flag.
C15_Ctf ==
    Ran({"CTF"}) =>
        /\ ~pre.cpu.flags.user_mode =>
               /\ res = "Ok"
               /\ cpu = [PreCpuAfter(1) EXCEPT !.flags.trap = FALSE]
               /\ mem = pre.mem
        /\ pre.cpu.flags.user_mode /\ pre.cpu.flags.trap => cpu.flags.trap


\* physical byte (high << 16) | low
PhysicalAddress(high, low) == high * Pow2(16) + low

\* the physical address and the source byte of the PSTORE that ran on cpu0
\* with the operand bytes of i
PStoreAddress(cpu0, i) ==
    PhysicalAddress(read_br([cpu |-> cpu0], paired(i[2])[1]),
                    read_wr([cpu |-> cpu0], paired(i[2])[2]))

PStoreByte(cpu0, i) == read_br([cpu |-> cpu0], paired(i[3])[1])

\* the physical address of the last PLOAD
PLoadAddress == PhysicalAddress(read_br(Before, Nib(2)), read_wr(Before, Nib(3)))

\* PSTORE in supervisor mode: the source byte is at the physical address,
\* every other byte and every register is as before
PStoreLaw ==
    Ran({"PSTORE"}) /\ ~pre.cpu.flags.user_mode /\ Nib(4) = 0 =>
        /\ res = "Ok"
        /\ PhysBytes(mem, PStoreAddress(pre.cpu, ins)) = PStoreByte(pre.cpu, ins)
        /\ \A a \in (DOMAIN mem \cup DOMAIN pre.mem) \ {PStoreAddress(pre.cpu, ins)} :
               PhysBytes(mem, a) = PhysBytes(pre.mem, a)
        /\ cpu = PreCpuAfter(3)

\* PLOAD of the address the PSTORE before it wrote: the destination is
\* written with the stored byte
PLoadLaw ==
    /\ RanBefore(1, "PSTORE")
    /\ Ran({"PLOAD"})
    /\ Nib(4) = 0
    /\ PLoadAddress = PStoreAddress(hist[1].cpu, hist[1].ins)
    => /\ res = "Ok"
       /\ After = write_br([cpu |-> PreCpuAfter(3)], Nib(1), PStoreByte(hist[1].cpu, hist[1].ins))
       /\ mem = pre.mem

\* C16: in supervisor mode PSTORE and PLOAD address physical byte
\* (high << 16) | low, high the designated byte register and low the wide
\* register, independent of virtual_mode; PSTORE writes the value of its
\* source byte register there and changes no register, and PLOAD of the same
\* address immediately afterwards writes that same byte to its destination
\* register.
C16_PhysicalAccess == PStoreLaw /\ PLoadLaw

\* with paging on, a byte stored above 2^16 was read back into r4l
C16_Witness ==
    /\ RanBefore(1, "PSTORE")
    /\ Ran({"PLOAD"})
    /\ res = "Ok"
    /\ pre.cpu.flags.virtual_mode
    /\ PLoadAddress = PStoreAddress(hist[1].cpu, hist[1].ins)
    /\ PLoadAddress > Pow2(16)
    /\ PStoreByte(hist[1].cpu, hist[1].ins) # 0
    /\ Nib(1) = 7
    /\ read_br(After, 7) = PStoreByte(hist[1].cpu, hist[1].ins)
    /\ read_br(Before, 7) # read_br(After, 7)


ConditionFlags == {"zero", "sign", "carry", "overflow"}

\* C17: whenever a handler returns a trap, no general register, condition
\* flag, stack pointer, link or memory byte differs from its value before the
\* instruction.
C17_FullyOrTraps ==
    ins # <<>> /\ res \in TrapModes =>
        /\ cpu.registers = pre.cpu.registers
        /\ \A f \in ConditionFlags : cpu.flags[f] = pre.cpu.flags[f]
        /\ cpu.stack = pre.cpu.stack
        /\ cpu.link = pre.cpu.link
        /\ mem = pre.mem


\* the registers r as the nibble pairs of their roles: first with second,
\* third with fourth, a missing second or fourth being the zero nibble
RolePairs(r) ==
    CASE Len(r) = 0 -> <<>>
      [] Len(r) = 1 -> <<<<r[1], 0>>>>
      [] Len(r) = 2 -> <<<<r[1], r[2]>>>>
      [] Len(r) = 3 -> <<<<r[1], r[2]>>, <<r[3], 0>>>>
      [] OTHER -> <<<<r[1], r[2]>>, <<r[3], r[4]>>>>

\* the operand tuple as the decoders are to yield it
Roles(dat_op) ==
    RolePairs(dat_op.r)
        \o (IF HasByte(dat_op.shape) THEN <<dat_op.b>> ELSE <<>>)
        \o (IF HasWide(dat_op.shape) THEN <<dat_op.w.n>> ELSE <<>>)

\* C18: for every operand shape and every legal operand tuple, decoding the
\* bytes written by write_data_operand with the handler decoders yields the
\* same registers and immediates in the same roles and passes every
\* zero-nibble check (no handler but that of NULL, which has no operand,
\* returns Invalid); the wide tuple (r1, r2, r3) is written as 0x12 0x30.
C18_RoundTrip ==
    asm # <<>> /\ asm.phase = "encoded" =>
        /\ asm.decoded = Roles(asm.dat_op)
        /\ asm.opcode # "NULL" => asm.result # "Invalid"
        /\ asm.result = "Ok" /\ asm.opcode # "none" => asm.fetched = Len(asm.bytes)
        /\ asm.dat_op = DataOperand("ThreeWide", <<1, 2, 3>>, 0, Number(0)) =>
               asm.bytes = <<18, 48>>

\* add r1, r2, r3 was written as 0x12 0x30 and ran as ADD_W
C18_Witness ==
    /\ asm # <<>>
    /\ asm.phase = "encoded"
    /\ asm.dat_op = DataOperand("ThreeWide", <<1, 2, 3>>, 0, Number(0))
    /\ asm.opcode = "ADD_W"
    /\ asm.bytes = <<18, 48>>
    /\ asm.decoded = <<<<1, 2>>, <<3, 0>>>>
    /\ asm.result = "Ok"


\* process returned the labels and the data lines
Assembled == asm # <<>> /\ asm.phase = "done" /\ asm.error = <<>>

\* the labels defined in a segment that has a start
Placed == {i \in 1 .. Len(asm.symbols.labels) : asm.symbols.id_to_pos[i].addr[1] \in DOMAIN asm.start}

\* the start of the segment of label i plus the number of bytes the second
\* pass emits for the data lines that precede the label in its segment
EmittedBefore(i) ==
    asm.start[asm.symbols.id_to_pos[i].addr[1]]
        + Len(Emitted(SubSeq(asm.dls[asm.symbols.id_to_pos[i].addr[1]].lines, 1,
                             asm.symbols.id_to_pos[i].at),
                      asm.labels))

\* C19: for every label defined inside a segment, the address process()
\* reports for it, which is the 16-bit immediate emitted for every
\* instruction referring to it, equals the segment's start address plus the
\* number of bytes pass 2 emits in that segment before the label.
C19_LabelAddress ==
    Assembled => \A i \in Placed : asm.labels[i] = EmittedBefore(i)


\* process read every line and came to its labels
LinesAccepted ==
    /\ asm # <<>>
    /\ asm.phase = "done"
    /\ \A i \in 1 .. Len(asm.error) : asm.error[i].e = "never defined"

\* the lines of the source that use label l: an operand or a .wide names it
UsingLines(l) ==
    {k \in 1 .. Len(asm.source) :
        /\ asm.source[k].line \in {"Ins", "DirWide"}
        /\ \E j \in 1 .. Len(asm.source[k].ops) :
               asm.source[k].ops[j].kind = "Label" /\ asm.source[k].ops[j].l = l}

\* the lines of the source that define label l
DefiningLines(l) ==
    {k \in 1 .. Len(asm.source) : asm.source[k].line = "Label" /\ asm.source[k].s = l}

\* the errors of the chain that name label l at line k
ErrorsAt(l, k) ==
    {i \in 1 .. Len(asm.error) : asm.error[i].label = l /\ asm.error[i].ln = k}

\* C20: if a non-global label is used at one or more source lines and never
\* defined, process() fails and the error chain holds an error for every use
\* site of that label, one per using line, carrying that line; a label used
\* before its later definition causes no error.
C20_UndefinedLabels ==
    LinesAccepted =>
        \A l \in LabelNames :
            /\ UsingLines(l) # {} /\ DefiningLines(l) = {} =>
                   /\ asm.error # <<>>
                   /\ \A k \in UsingLines(l) : Cardinality(ErrorsAt(l, k)) = 1
            /\ DefiningLines(l) # {} => \A k \in 1 .. Len(asm.source) : ErrorsAt(l, k) = {}

(***************************************************************************)
(* C21: PUSH of width w lowers the stack pointer by w and then stores the  *)
(* value at the new stack pointer, and POP loads from the stack pointer    *)
(* and then raises it by w; hence a PUSH immediately followed by a POP of  *)
(* the same width delivers the pushed value to the destination register    *)
(* and restores the stack pointer to its value before the PUSH.  Stated    *)
(* for PUSH_B, PUSH_W, POP_B, POP_W of Blf4 and for PUSH, POP of           *)
(* StandardCpu.                                                            *)
(***************************************************************************)
\* the width in bytes of the last PUSH or POP of Blf4
StackWidth == IF Ran({"PUSH_B", "POP_B"}) THEN 1 ELSE 2

\* the register of that width, in a cpu
StackReg(c, r) == IF StackWidth = 1 THEN read_br([cpu |-> c], r) ELSE read_wr([cpu |-> c], r)

\* the value of that width that a memory holds at effective address a
StackCell(m, a) ==
    IF StackWidth = 1 THEN PhysBytes(m, PhysAt(a))
    ELSE PhysBytes(m, PhysAt(a)) + 256 * PhysBytes(m, PhysAt(a + 1))

PushLaw ==
    (Ran({"PUSH_B", "PUSH_W"}) /\ res = "Ok") =>
        /\ cpu.stack = Wrap(pre.cpu.stack - StackWidth, 16)
        /\ StackCell(mem, cpu.stack) = StackReg(pre.cpu, Nib(1))

PopLaw ==
    (Ran({"POP_B", "POP_W"}) /\ res = "Ok") =>
        /\ StackReg(cpu, Nib(1)) = StackCell(pre.mem, pre.cpu.stack)
        /\ cpu.stack = Wrap(pre.cpu.stack + StackWidth, 16)

\* the last two instructions were a PUSH and a POP of the same width
PushedAndPopped ==
    /\ Len(hist) = 2
    /\ res = "Ok"
    /\ \/ RanBefore(1, "PUSH_B") /\ RanBefore(0, "POP_B")
       \/ RanBefore(1, "PUSH_W") /\ RanBefore(0, "POP_W")

PushPopLaw ==
    PushedAndPopped =>
        /\ StackReg(cpu, Nib(1)) = StackReg(hist[1].cpu, paired(hist[1].ins[2])[1])
        /\ cpu.stack = hist[1].cpu.stack

\* the k-th run before the last one of StandardCpu, and whether it ran op
Run16Before(k) == std.hist[Len(std.hist) - k]

Ran16Before(k, op) ==
    /\ DOMAIN std # {}
    /\ Len(std.hist) > k
    /\ Run16Before(k).op = op

PushLaw16 ==
    (Ran16Before(0, PUSH) /\ std.signal = "None") =>
        /\ std.cpu.stack_pointer = Wrap(Run16Before(0).cpu.stack_pointer - 1, 16)
        /\ Cell(std.memory, std.cpu.stack_pointer) = Run16Before(0).cpu.work

PopLaw16 ==
    (Ran16Before(0, POP) /\ std.signal = "None") =>
        /\ std.cpu.work = Cell(Run16Before(0).memory, Run16Before(0).cpu.stack_pointer)
        /\ std.cpu.stack_pointer = Wrap(Run16Before(0).cpu.stack_pointer + 1, 16)

PushPopLaw16 ==
    (Ran16Before(0, POP) /\ Ran16Before(1, PUSH) /\ std.signal = "None") =>
        /\ std.cpu.work = Run16Before(1).cpu.work
        /\ std.cpu.stack_pointer = Run16Before(1).cpu.stack_pointer

C21_PushPop ==
    /\ PushLaw
    /\ PopLaw
    /\ PushPopLaw
    /\ PushLaw16
    /\ PopLaw16
    /\ PushPopLaw16

(***************************************************************************)
(* C22: across a source file and all files it includes, a second .entry    *)
(* directive makes process() fail with DoubleEntry at the second           *)
(* directive's line; with exactly one .entry the reported entry address is *)
(* the start of the segment active at the directive plus the bytes laid    *)
(* out in that segment before it; with none, the entry is absent.          *)
(***************************************************************************)
\* the lines read so far, in any file, that are .entry directives
EntryLines == {k \in 1 .. Len(asm.source) : asm.source[k].line = "DirEntry"}

\* the lines read before line k in the same reading of the same file
SameFileBefore(k) ==
    {j \in 1 .. k - 1 :
        /\ asm.read[j].source = asm.read[k].source
        /\ asm.read[j].line_number < asm.read[k].line_number
        /\ \A i \in j + 1 .. k - 1 :
               asm.read[i].source = asm.read[k].source
                   => asm.read[i].line_number > asm.read[j].line_number}

\* the segment active at line k: that of the last .seg before it in its file
SegLinesBefore(k) == {j \in SameFileBefore(k) : asm.source[j].line = "DirSeg"}

ActiveSegment(k) ==
    IF SegLinesBefore(k) = {} THEN "Unknown"
    ELSE asm.source[CHOOSE j \in SegLinesBefore(k) : \A i \in SegLinesBefore(k) : i <= j].s

\* the one .entry directive read
TheEntry == CHOOSE k \in EntryLines : TRUE

\* the bytes the second pass emits for the data lines that the segment of
\* the entry held at the directive
BytesBeforeEntry ==
    Len(Emitted(SubSeq(asm.dls[ActiveSegment(TheEntry)].lines, 1, asm.entry[1][3]),
                asm.labels))

DoubleEntryLaw ==
    (asm.phase = "lines" \/ asm.phase = "done") =>
        /\ Cardinality(EntryLines) <= 2
        /\ Cardinality(EntryLines) = 2 =>
               /\ asm.phase = "done"
               /\ asm.error = <<[src |-> asm.read[Len(asm.read)].source,
                                 ln |-> asm.read[Len(asm.read)].line_number,
                                 label |-> "", e |-> "DoubleEntry"]>>
               /\ Len(asm.source) \in EntryLines

\* a segment that receives no data line is not laid out and has no start:
\* the law is stated for the segments that have one
OneEntryLaw ==
    (Assembled /\ Cardinality(EntryLines) = 1) =>
        /\ Len(asm.entry_point) = 1
        /\ ActiveSegment(TheEntry) \in DOMAIN asm.start =>
               asm.entry_point[1] = asm.start[ActiveSegment(TheEntry)] + BytesBeforeEntry

NoEntryLaw == (Assembled /\ EntryLines = {}) => asm.entry_point = <<>>

Segments == DOMAIN asm.start

\* the end of a segment's range, as a number
SegmentEnd(st) == asm.start[st] + asm.dls[st].size

Disjoint(s, t) == SegmentEnd(s) <= asm.start[t] \/ SegmentEnd(t) <= asm.start[s]

C23_Segments ==
    Assembled =>
        /\ \A st \in Segments : asm.start[st] % SEGMENT_ALIGNMENT = 0
        /\ \A st \in Segments : SegmentEnd(st) <= Pow2(16)
        /\ \A s \in Segments, t \in Segments : s # t => Disjoint(s, t)

(***************************************************************************)
(* C24: for every operand shape, the byte count the layout pass charges    *)
(* for it (DataOperand::size) equals the number of bytes                   *)
(* write_data_operand appends for it, and equals the number of operand     *)
(* bytes the matching handler fetches after the opcode; in particular for  *)
(* WideImmByte, WideImmWide and ByteWideImm.                               *)
(***************************************************************************)
C24_SizeWrittenFetched ==
    (DOMAIN asm # {} /\ asm.phase = "encoded") =>
        /\ size(asm.dat_op) = Len(asm.bytes)
        /\ (asm.result = "Ok" /\ asm.opcode # "none") => asm.fetched = size(asm.dat_op)

(***************************************************************************)
(* C25: symbol resolution at the end of process(): a symbol declared       *)
(* .reference that is also defined makes process() fail; a symbol declared *)
(* .global (or .reference) that is never defined is output with visibility *)
(* Reference, segment Unknown and placeholder address 0xfaff; an           *)
(* undeclared (internal) symbol that is never defined makes process()      *)
(* fail; a defined internal or global symbol keeps its visibility and gets *)
(* address segment start + offset.                                         *)
(***************************************************************************)
\* inner_process accepted every line, and process came to its symbols
Resolved ==
    /\ asm.phase = "done"
    /\ \A i \in 1 .. Len(asm.error) :
           asm.error[i].e \in {"never defined", "declared as reference but defined"}

\* what the source says of symbol l
LinesOf(kind, l) ==
    {k \in 1 .. Len(asm.source) : asm.source[k].line = kind /\ asm.source[k].s = l}

DeclaredGlobal(l) == LinesOf("DirGlobal", l) # {} /\ LinesOf("DirReference", l) = {}

DeclaredReference(l) == LinesOf("DirReference", l) # {} /\ LinesOf("DirGlobal", l) = {}

Undeclared(l) == LinesOf("DirGlobal", l) = {} /\ LinesOf("DirReference", l) = {}

Defined(l) == LinesOf("Label", l) # {}

Used(l) == UsingLines(l) # {}

\* the elements process returns for symbol l
ElementsOf(l) == {i \in 1 .. Len(asm.symtab) : asm.symtab[i].l = l}

\* the offset of label l in its segment: the size of the segment when the
\* label was defined
OffsetOf(l) == asm.symbols.id_to_pos[IdOf(asm.symbols, l)].addr[2]

SymbolLaw(l) ==
    /\ (DeclaredReference(l) /\ Defined(l)) => asm.error # <<>>
    /\ (Undeclared(l) /\ Used(l) /\ ~Defined(l)) => asm.error # <<>>
    /\ (asm.error = <<>> /\ (DeclaredGlobal(l) \/ DeclaredReference(l)) /\ ~Defined(l)) =>
           /\ Cardinality(ElementsOf(l)) = 1
           /\ \A i \in ElementsOf(l) :
                  asm.symtab[i] = [l |-> l, st |-> "Reference", stype |-> "Unknown",
                                   pos |-> 64255]
    /\ (asm.error = <<>> /\ (DeclaredGlobal(l) \/ Undeclared(l)) /\ Defined(l)) =>
           /\ Cardinality(ElementsOf(l)) = 1
           /\ \A i \in ElementsOf(l) :
                  /\ asm.symtab[i].st = IF DeclaredGlobal(l) THEN "Global" ELSE "Internal"
                  /\ asm.symtab[i].stype \in DOMAIN asm.start =>
                         asm.symtab[i].pos = asm.start[asm.symtab[i].stype] + OffsetOf(l)

HasPosition(l) == Known(asm.symbols, l) /\ asm.symbols.id_to_pos[IdOf(asm.symbols, l)].defined

\* the step reads a line that defines label l
Defines(l) ==
    /\ asm.phase = "lines"
    /\ Len(asm'.source) = Len(asm.source) + 1
    /\ asm'.source[Len(asm'.source)] = SrcLabel(l)

\* the error of the line just read
AlreadyDefined(a) ==
    <<[src |-> a.read[Len(a.read)].source, ln |-> a.read[Len(a.read)].line_number,
      label |-> "", e |-> "already defined"]>>

SecondDefinition(l) ==
    (Defines(l) /\ HasPosition(l)) =>
        /\ asm'.phase = "done"
        /\ asm'.error = AlreadyDefined(asm')
        /\ asm'.symbols = asm.symbols

C26_SetLabelTwice == [][\A l \in LabelNames : SecondDefinition(l)]_vars

\* .global b / .seg text / a: / a: failed at line 4; a is at offset 0 of
\* text, b is global with its use at line 1
C26_Witness ==
    /\ asm.phase = "done"
    /\ Len(asm.source) = 4
    /\ asm.source[3] = SrcLabel("a") /\ asm.source[4] = SrcLabel("a")
    /\ asm.error = <<[src |-> "main", ln |-> 4, label |-> "", e |-> "already defined"]>>
    /\ asm.symbols.labels = <<"b", "a">>
    /\ asm.symbols.id_to_pos[1].st = "Global"
    /\ asm.symbols.id_to_pos[1].uses = <<SourceLocation("main", 1)>>
    /\ asm.symbols.id_to_pos[2].defined
    /\ asm.symbols.id_to_pos[2].addr = <<"text", 0>>

(***************************************************************************)
(* C27: in every state reached by executing instructions from a            *)
(* supervisor-mode start, user_mode and trap are never both set: handler   *)
(* code runs in supervisor mode, so no user-mode code executes RETH or CTF *)
(* with the trap flag set.                                                 *)
(***************************************************************************)
C27_HandlerSupervisor == ~(cpu.flags.user_mode /\ cpu.flags.trap)

(***************************************************************************)
(* C28: in the StandardCpu machine a CALL followed, with a balanced stack  *)
(* in between, by RET resumes at the instruction right after the CALL and  *)
(* restores the stack pointer to its value before the CALL: RET reads the  *)
(* return address from the two cells that CALL wrote.                      *)
(***************************************************************************)
\* the last run was a RET, the k-th run before it was a CALL, and the runs
\* between them left the stack pointer where the CALL had put it
Balanced(k) ==
    /\ Ran16Before(0, RET)
    /\ Ran16Before(k, CALL)
    /\ std.signal = "None"
    /\ \A j \in 1 .. k - 1 : Run16Before(j).op \in {NOP, PUSH, POP}
    /\ Run16Before(0).cpu.stack_pointer = Run16Before(k - 1).cpu.stack_pointer

\* the address of the instruction after a CALL: its opcode and two bytes on
AfterCall(c) == Wrap(c.pc + 3, 16)

\* the two cells a CALL writes the return address to
CallCells(c) == {Wrap(c.stack_pointer - 1, 16), c.stack_pointer}

\* the two cells a RET reads the return address from
RetCells(c) == {Wrap(c.stack_pointer + 3, 16), Wrap(c.stack_pointer + 4, 16)}

C28_CallRet ==
    \A k \in 1 .. MaxRuns :
        Balanced(k) =>
            /\ std.cpu.pc = AfterCall(Run16Before(k).cpu)
            /\ std.cpu.stack_pointer = Run16Before(k).cpu.stack_pointer
            /\ RetCells(Run16Before(0).cpu) = CallCells(Run16Before(k).cpu)

\* the part that holds: the stack pointer is back where it was
CallRetStackRestored ==
    \A k \in 1 .. MaxRuns :
        Balanced(k) =>
            std.cpu.stack_pointer = Run16Before(k).cpu.stack_pointer

(***************************************************************************)
(* C29: the big-R byte encoding maps a register to its selector 0x00 ..    *)
(* 0x07, the immediate 0 to the zero register's byte 0x00 and an immediate *)
(* b in 1 .. 247 to b + 7; every immediate above 247 is rejected with      *)
(* "immediate between 1-247", so no accepted operand other than the        *)
(* immediate 0 shares its byte with a register.                            *)
(***************************************************************************)
\* big_r_to_byte has run on the operand
ByteWritten == asm.phase = "byte written"

\* the part about immediates up to 247, and about sharing a byte
BigRAccepted ==
    ByteWritten =>
        /\ asm.big_r.register =>
               asm.out = Encoded(<<asm.big_r.v>>) /\ asm.big_r.v \in 0 .. 7
        /\ (~asm.big_r.register /\ asm.big_r.v = 0) => asm.out = Encoded(<<0>>)
        /\ (~asm.big_r.register /\ asm.big_r.v \in 1 .. 247) =>
               asm.out = Encoded(<<asm.big_r.v + 7>>)
        /\ (~asm.big_r.register /\ asm.big_r.v # 0 /\ asm.out.ok) =>
               asm.out.bytes[1] \notin BReg

\* the part about immediates above 247
BigRRejected ==
    (ByteWritten /\ ~asm.big_r.register /\ asm.big_r.v > 247) =>
        asm.out = Rejected("immediate between 1-247")

C29_BigRByte == BigRAccepted /\ BigRRejected

(***************************************************************************)
(* C30: in every file, and separately in every included file, whatever     *)
(* occupies an address before the first .seg directive is rejected with    *)
(* "no segment was started": after process() succeeds every defined label  *)
(* and the entry point belong to one of the segments text, rodata, data    *)
(* and heap, never to the Unknown segment.                                 *)
(***************************************************************************)
StartedSegments == {"text", "rodata", "data", "heap"}

\* a data line before the first .seg of its file is rejected
DataBeforeSeg ==
    (asm.phase # "panic" /\ unknown_defined(asm)) =>
        /\ asm.phase = "done"
        /\ Len(asm.error) = 1
        /\ asm.error[1].e = "no segment was started"
        /\ asm.error[1].src = asm.src
        /\ asm.error[1].ln = asm.ln

\* the labels process returns as defined
DefinedLabels == {i \in 1 .. Len(asm.symtab) : asm.symbols.id_to_pos[i].defined}

LabelsInSegments ==
    Assembled => \A i \in DefinedLabels : asm.symtab[i].stype \in StartedSegments

EntryInSegment ==
    (Assembled /\ asm.entry # <<>>) => asm.entry[1][1] \in StartedSegments

C30_NoUnknownSegment == DataBeforeSeg /\ LabelsInSegments /\ EntryInSegment

====
